---- MODULE Spec2Model ----
(***************************************************************************)
(* Chat/messaging engine of the clinic management API: the Chat Directory *)
(* (ChatService), the Message Ledger (MessageService), the request        *)
(* endpoints (ChatController), the identity snapshot cache and            *)
(* UsersService.updateProfile, as a state machine over the persisted      *)
(* rows Connection, Chat, Message and User.                               *)
(***************************************************************************)
EXTENDS Integers, Sequences, FiniteSets, TLC

(***************************************************************************)
(* Bounds of the model.                                                   *)
(***************************************************************************)
\* text messages that may be sent (SYSTEM messages are not counted)
MaxMsgs == 2
\* the store's clock runs from 1 to MaxTime
MaxTime == 2

(***************************************************************************)
(* The fixed population: two connections of one doctor, and a connection  *)
(* id that has no row.                                                    *)
(***************************************************************************)
Users == {"user-doc", "user-pat", "user-pat-1"}

Conns == {"conn-123", "conn-1"}

ConnIds == Conns \cup {"invalid-id"}

Procs == {"h1", "h2"}

\* connection.doctor.userId
DoctorUser(c) == "user-doc"

\* connection.patient.userId
PatientUser(c) == IF c = "conn-123" THEN "user-pat" ELSE "user-pat-1"

SystemText == "Chat started. You can now communicate securely."

DeletedText == "This message was deleted"

Names == {"Ahmed", "Ali"}

VARIABLES
    connStatus,          \* Connection.status
    unreadCount,         \* Connection.unreadCount
    connLastMessageAt,   \* Connection.lastMessageAt (0: null)
    connLastActivityAt,  \* Connection.lastActivityAt (0: null)
    chats,               \* the Chat rows, a row's id is its index
    messages,            \* the Message rows, a row's id is its index
    now,                 \* the store's clock
    users,               \* User.firstName / User.lastName
    cache,               \* identity snapshot cache: user id -> snapshot
    pc,                  \* where each request handler stands
    local,               \* each request handler's locals
    last,                \* what the request that just finished returned
    pager,               \* a client paging through a chat with getMessages
    sockets,             \* the gateway's sockets: state, subscriptions
    presence,            \* the presence store: a user's entry, by its TTL left
    accounts,            \* the User rows of the accounts in registration
    otps,                \* the email verification codes of the OtpProvider
    profiles             \* the Patient / Doctor rows of an account, counted

vars == <<connStatus, unreadCount, connLastMessageAt, connLastActivityAt,
          chats, messages, now, users, cache, pc, local, last, pager,
          sockets, presence, accounts, otps, profiles>>

connVars == <<connStatus, unreadCount, connLastMessageAt, connLastActivityAt>>

gwVars == <<sockets, presence>>

regVars == <<accounts, otps, profiles>>

(***************************************************************************)
(* Rows and lookups.                                                      *)
(***************************************************************************)
ChatIds == DOMAIN chats

MsgIds == DOMAIN messages

\* prisma.chat.findUnique({ where: { connectionId } }): the ids of the rows
ChatsOfConnection(c) == {i \in ChatIds : chats[i].connectionId = c}

\* one of them (0: null)
ChatOfConnection(c) ==
    IF ChatsOfConnection(c) = {} THEN 0
    ELSE CHOOSE i \in ChatsOfConnection(c) : \A j \in ChatsOfConnection(c) : i <= j

MessagesOfChat(ch) == {m \in MsgIds : messages[m].chatId = ch}

SystemMessagesOfChat(ch) ==
    {m \in MessagesOfChat(ch) : messages[m].messageType = "SYSTEM"}

TextCount == Cardinality({m \in MsgIds : messages[m].messageType # "SYSTEM"})

\* variant of hasAccess that knows the doctor's side only
hasAccess_DoctorOnly(ch, u) == u = DoctorUser(chats[ch].connectionId)

\* hasAccess / canAccessChat: the user is the connection's doctor or patient
hasAccess(ch, u) ==
    LET c == chats[ch].connectionId
    IN  u = DoctorUser(c) \/ u = PatientUser(c)

NewChat(c) ==
    [connectionId |-> c, lastMessageAt |-> 0, lastMessagePreview |-> ""]

NewMessage(ch, u, text, type, read) ==
    [chatId |-> ch, senderId |-> u, content |-> text, messageType |-> type,
     isRead |-> read, isDeleted |-> FALSE, createdAt |-> now]

\* the SYSTEM message getOrCreateChat appends to a new chat
ChatStartedMessage(ch, c) ==
    NewMessage(ch, DoctorUser(c), SystemText, "SYSTEM", TRUE)

(***************************************************************************)
(* Request handlers: locals and results.                                  *)
(***************************************************************************)
NoSnap == [firstName |-> "", lastName |-> ""]

NoLocal ==
    [conn |-> "", chat |-> 0, user |-> "", content |-> "", msg |-> 0,
     via |-> "", sawNone |-> FALSE, snap |-> NoSnap, renamed |-> FALSE,
     updated |-> 0, incremented |-> 0, count |-> 0, email |-> "",
     nationalId |-> "", role |-> ""]

\* what a request returned, until the response has left (Respond)
NoLast ==
    [op |-> "", status |-> "", via |-> "", conn |-> "", chat |-> 0,
     user |-> "", content |-> "", msg |-> 0, created |-> FALSE,
     sawNone |-> FALSE, snap |-> NoSnap, wasRead |-> FALSE,
     wasDeleted |-> FALSE, updated |-> 0, incremented |-> 0, count |-> 0,
     granted |-> FALSE, role |-> "", entries |-> {}, delivery |-> "",
     email |-> ""]

NoPager ==
    [state |-> "off", chat |-> 0, user |-> "", limit |-> 0, cursor |-> 0,
     seen |-> <<>>, start |-> {}, hasMore |-> FALSE]

\* no response is waiting to leave
Ready == last = NoLast

Result(r) == last' = r

\* the handler returns (or throws) and is free again
Return(p, r) ==
    /\ pc' = [pc EXCEPT ![p] = "idle"]
    /\ local' = [local EXCEPT ![p] = NoLocal]
    /\ Result(r)

Goto(p, label, l) ==
    /\ pc' = [pc EXCEPT ![p] = label]
    /\ local' = [local EXCEPT ![p] = l]
    /\ UNCHANGED last

(***************************************************************************)
(* Chat Directory: getOrCreateChat(connectionId).                         *)
(***************************************************************************)
GocRes(c, status, ch, created, sawNone) ==
    [NoLast EXCEPT !.op = "getOrCreateChat", !.status = status, !.conn = c,
                   !.chat = ch, !.created = created, !.sawNone = sawNone]

\* variant of getOrCreateChat_connection without the status check
getOrCreateChat_connection_NoStatus(p, c) ==
    /\ Ready
    /\ pc[p] = "idle"
    /\ IF c \notin Conns
         THEN Return(p, GocRes(c, "NotFound", 0, FALSE, FALSE))
         ELSE Goto(p, "goc_find", [NoLocal EXCEPT !.conn = c])
    /\ UNCHANGED <<connVars, chats, messages, now, users, cache, pager, gwVars,
                   regVars>>

\* doctorPatientConnection.findUnique, then the NotFound and status checks
getOrCreateChat_connection(p, c) ==
    /\ Ready
    /\ pc[p] = "idle"
    /\ IF c \notin Conns
         THEN Return(p, GocRes(c, "NotFound", 0, FALSE, FALSE))
         ELSE IF connStatus[c] # "ACTIVE"
           THEN Return(p, GocRes(c, "InvalidState", 0, FALSE, FALSE))
           ELSE Goto(p, "goc_find", [NoLocal EXCEPT !.conn = c])
    /\ UNCHANGED <<connVars, chats, messages, now, users, cache, pager, gwVars,
                   regVars>>

\* variant of getOrCreateChat_find that appends the SYSTEM message on every
\* access
getOrCreateChat_find_Announce(p) ==
    /\ Ready
    /\ pc[p] = "goc_find"
    /\ LET c == local[p].conn
           ch == ChatOfConnection(c)
       IN  IF ch # 0
             THEN /\ Return(p, GocRes(c, "ok", ch, FALSE, FALSE))
                  /\ messages' = Append(messages, ChatStartedMessage(ch, c))
             ELSE /\ Goto(p, "goc_create", [local[p] EXCEPT !.sawNone = TRUE])
                  /\ UNCHANGED messages
    /\ UNCHANGED <<connVars, chats, now, users, cache, pager, gwVars, regVars>>

\* chat.findUnique({ where: { connectionId } }): return the chat when found
getOrCreateChat_find(p) ==
    /\ Ready
    /\ pc[p] = "goc_find"
    /\ LET c == local[p].conn
           ch == ChatOfConnection(c)
       IN  IF ch # 0
             THEN Return(p, GocRes(c, "ok", ch, FALSE, FALSE))
             ELSE Goto(p, "goc_create", [local[p] EXCEPT !.sawNone = TRUE])
    /\ UNCHANGED <<connVars, chats, messages, now, users, cache, pager, gwVars,
                   regVars>>

\* variant of UniqueViolation: no constraint on Chat.connectionId
UniqueViolation_None(c) == FALSE

\* the uniqueness constraint on Chat.connectionId
UniqueViolation(c) == ChatsOfConnection(c) # {}

\* variant of CreateChatTx: chat.create and message.create run one after the
\* other outside a transaction, so a failed message.create leaves the chat
CreateChatTx_Uncoupled(c, fails) ==
    /\ chats' = Append(chats, NewChat(c))
    /\ messages' = IF fails THEN messages
                   ELSE Append(messages, ChatStartedMessage(Len(chats) + 1, c))

\* $transaction(chat.create, message.create): commits the chat row and its
\* SYSTEM message together, or fails and leaves neither
CreateChatTx(c, fails) ==
    IF fails
      THEN UNCHANGED <<chats, messages>>
      ELSE /\ chats' = Append(chats, NewChat(c))
           /\ messages' = Append(messages, ChatStartedMessage(Len(chats) + 1, c))

\* create-if-absent: on a uniqueness violation the winner's row is fetched
\* instead; otherwise the transaction runs, and may fail
getOrCreateChat_create(p) ==
    /\ Ready
    /\ pc[p] = "goc_create"
    /\ LET c == local[p].conn
       IN  IF UniqueViolation(c)
             THEN /\ Return(p, GocRes(c, "ok", ChatOfConnection(c), FALSE, TRUE))
                  /\ UNCHANGED <<chats, messages>>
             ELSE \E fails \in BOOLEAN :
                    /\ CreateChatTx(c, fails)
                    /\ Return(p, IF fails
                                   THEN GocRes(c, "Error", 0, FALSE, TRUE)
                                   ELSE GocRes(c, "ok", Len(chats) + 1, TRUE, TRUE))
    /\ UNCHANGED <<connVars, now, users, cache, pager, gwVars, regVars>>

(***************************************************************************)
(* Chat Directory: verifyUserAccess and getChatDetails.                    *)
(***************************************************************************)
\* the callers of the access operations: the users and a stranger
Callers == Users \cup {"other-user"}

AccessRes(op, status, ch, u, granted) ==
    [NoLast EXCEPT !.op = op, !.status = status, !.chat = ch, !.user = u,
                   !.granted = granted]

\* verifyUserAccess(chatId, userId): NotFound without the chat, else whether
\* the user is one of the connection's two sides
verifyUserAccess(ch, u) ==
    /\ Ready
    /\ Result(IF ch \notin ChatIds
                THEN AccessRes("verifyUserAccess", "NotFound", ch, u, FALSE)
                ELSE AccessRes("verifyUserAccess", "ok", ch, u, hasAccess(ch, u)))
    /\ UNCHANGED <<connVars, chats, messages, now, users, cache, pc, local,
                   pager, gwVars, regVars>>

\* getChatDetails(chatId, userId): NotFound without the chat, Forbidden for a
\* user who is neither side, else the chat
getChatDetails(ch, u) ==
    /\ Ready
    /\ Result(IF ch \notin ChatIds
                THEN AccessRes("getChatDetails", "NotFound", ch, u, FALSE)
                ELSE IF ~hasAccess(ch, u)
                  THEN AccessRes("getChatDetails", "Forbidden", ch, u, FALSE)
                  ELSE AccessRes("getChatDetails", "ok", ch, u, TRUE))
    /\ UNCHANGED <<connVars, chats, messages, now, users, cache, pc, local,
                   pager, gwVars, regVars>>

(***************************************************************************)
(* ChatController.getOrCreateChat: chatService.getOrCreateChat, then      *)
(* chatService.verifyUserAccess(chat.id, user.sub) and BadRequest when it *)
(* answers false.                                                         *)
(***************************************************************************)
ChatController_getOrCreateChat_verify(u) ==
    /\ last.op = "getOrCreateChat"
    /\ last' = [last EXCEPT
                  !.op = "ChatController_getOrCreateChat",
                  !.user = u,
                  !.granted = last.status = "ok" /\ hasAccess(last.chat, u),
                  !.status = IF last.status = "ok" /\ ~hasAccess(last.chat, u)
                               THEN "BadRequest" ELSE @]
    /\ UNCHANGED <<connVars, chats, messages, now, users, cache, pc, local,
                   pager, gwVars, regVars>>

(***************************************************************************)
(* Chat Directory: getUserChats and the aggregate getUnreadCount.          *)
(***************************************************************************)
Roles == {"DOCTOR", "PATIENT", "ADMIN"}

\* doctor.findUnique({ where: { userId } }): the profile id ("": null)
DoctorProfile(u) == IF u = "user-doc" THEN "doc-456" ELSE ""

\* patient.findUnique({ where: { userId } }): the profile id ("": null)
PatientProfile(u) ==
    IF u = "user-pat" THEN "pat-789"
    ELSE IF u = "user-pat-1" THEN "pat-1"
    ELSE ""

\* Connection.doctorId and Connection.patientId
DoctorId(c) == "doc-456"

PatientId(c) == IF c = "conn-123" THEN "pat-789" ELSE "pat-1"

ProfileOf(u, role) ==
    IF role = "DOCTOR" THEN DoctorProfile(u) ELSE PatientProfile(u)

\* where: { doctorId } or where: { patientId }
ConnectionsOf(u, role) ==
    {c \in Conns : IF role = "DOCTOR" THEN DoctorId(c) = DoctorProfile(u)
                                      ELSE PatientId(c) = PatientProfile(u)}

\* aggregate({ _sum: { unreadCount: true } })
RECURSIVE sumUnreadCount(_)
sumUnreadCount(S) ==
    IF S = {} THEN 0
    ELSE LET c == CHOOSE d \in S : TRUE
         IN  unreadCount[c] + sumUnreadCount(S \ {c})

ViewRes(op, status, u, role) ==
    [NoLast EXCEPT !.op = op, !.status = status, !.user = u, !.role = role]

\* variant of getUnreadCount_missingProfile: 0 for either role
getUnreadCount_missingProfile_Zero(role) == "ok"

\* getUnreadCount without the caller's profile: 0 for a doctor, NotFound for
\* a patient
getUnreadCount_missingProfile(role) ==
    IF role = "DOCTOR" THEN "ok" ELSE "NotFound"

\* ChatService.getUnreadCount(userId, role): the sum of unreadCount over the
\* connections of the caller's profile
ChatService_getUnreadCount(u, role) ==
    /\ Ready
    /\ Result(IF ProfileOf(u, role) = ""
                THEN ViewRes("getUnreadCount",
                             getUnreadCount_missingProfile(role), u, role)
                ELSE [ViewRes("getUnreadCount", "ok", u, role) EXCEPT
                        !.count = sumUnreadCount(ConnectionsOf(u, role))])
    /\ UNCHANGED <<connVars, chats, messages, now, users, cache, pc, local,
                   pager, gwVars, regVars>>

\* variant of participant that shows the caller's own side
participant_Self(c, role) ==
    IF role = "DOCTOR"
      THEN [userId |-> DoctorUser(c), role |-> "DOCTOR"]
      ELSE [userId |-> PatientUser(c), role |-> "PATIENT"]

\* the counterpart shown in an entry of getUserChats
participant(c, role) ==
    IF role = "DOCTOR"
      THEN [userId |-> PatientUser(c), role |-> "PATIENT"]
      ELSE [userId |-> DoctorUser(c), role |-> "DOCTOR"]

\* ChatService.getUserChats(userId, role): Forbidden for an admin, NotFound
\* without the profile, else one entry for each connection of the profile
getUserChats(u, role) ==
    /\ Ready
    /\ Result(IF role = "ADMIN"
                THEN ViewRes("getUserChats", "Forbidden", u, role)
                ELSE IF ProfileOf(u, role) = ""
                  THEN ViewRes("getUserChats", "NotFound", u, role)
                  ELSE [ViewRes("getUserChats", "ok", u, role) EXCEPT
                          !.entries =
                             {[connectionId |-> c,
                               chatId |-> ChatOfConnection(c),
                               unreadCount |-> unreadCount[c],
                               participant |-> participant(c, role)] :
                                 c \in ConnectionsOf(u, role)}])
    /\ UNCHANGED <<connVars, chats, messages, now, users, cache, pc, local,
                   pager, gwVars, regVars>>

(***************************************************************************)
(* The connection-management collaborator owns Connection.status.         *)
(***************************************************************************)
SetConnectionStatus(c, s) ==
    /\ Ready
    /\ connStatus[c] # s
    /\ connStatus' = [connStatus EXCEPT ![c] = s]
    /\ UNCHANGED <<unreadCount, connLastMessageAt, connLastActivityAt, chats,
                   messages, now, users, cache, pc, local, last, pager, gwVars,
                   regVars>>

\* the store's clock advances
Tick ==
    /\ Ready
    /\ now < MaxTime
    /\ now' = now + 1
    /\ UNCHANGED <<connVars, chats, messages, users, cache, pc, local, last,
                   pager, gwVars, regVars>>

\* the response of the request that just returned leaves the server
Respond ==
    /\ last # NoLast
    /\ last' = NoLast
    /\ UNCHANGED <<connVars, chats, messages, now, users, cache, pc, local,
                   pager, gwVars, regVars>>

(***************************************************************************)
(* Chat Directory: the follow-up updates of a Connection and its Chat.    *)
(***************************************************************************)
\* preview.substring(0, 200)
PreviewMax == 200

\* variant of substring that keeps the whole text
substring_Whole(s, n) == s

substring(s, n) == IF Len(s) <= n THEN s ELSE SubSeq(s, 1, n)

\* variant of updateConnectionLastMessage that leaves Connection.lastActivityAt
updateConnectionLastMessage_NoActivity(c, t, preview) ==
    /\ connLastMessageAt' = [connLastMessageAt EXCEPT ![c] = t]
    /\ UNCHANGED connLastActivityAt
    /\ chats' = [i \in DOMAIN chats |->
                   IF chats[i].connectionId = c
                     THEN [chats[i] EXCEPT
                             !.lastMessageAt = t,
                             !.lastMessagePreview = substring(preview, PreviewMax)]
                     ELSE chats[i]]

\* updateConnectionLastMessage(connectionId, lastMessageAt, preview): the
\* connection's and the chat's timestamps and the truncated preview, together
updateConnectionLastMessage(c, t, preview) ==
    /\ connLastMessageAt' = [connLastMessageAt EXCEPT ![c] = t]
    /\ connLastActivityAt' = [connLastActivityAt EXCEPT ![c] = t]
    /\ chats' = [i \in DOMAIN chats |->
                   IF chats[i].connectionId = c
                     THEN [chats[i] EXCEPT
                             !.lastMessageAt = t,
                             !.lastMessagePreview = substring(preview, PreviewMax)]
                     ELSE chats[i]]

\* 'a'.repeat(n)
RECURSIVE repeat(_, _)
repeat(s, n) ==
    IF n = 0 THEN ""
    ELSE IF n % 2 = 0
      THEN LET half == repeat(s, n \div 2) IN half \o half
      ELSE s \o repeat(s, n - 1)

\* preview texts: short ones, one of exactly 200 characters, longer ones
Previews ==
    {"", "Hello", repeat("a", PreviewMax), repeat("a", PreviewMax) \o "b",
     repeat("ab", PreviewMax)}

\* a call of updateConnectionLastMessage(connectionId, lastMessageAt, preview)
ChatService_updateConnectionLastMessage(c, t, preview) ==
    /\ Ready
    /\ ChatsOfConnection(c) # {}
    /\ updateConnectionLastMessage(c, t, preview)
    /\ Result([NoLast EXCEPT !.op = "updateConnectionLastMessage",
                             !.status = "ok", !.conn = c, !.content = preview])
    /\ UNCHANGED <<connStatus, unreadCount, messages, now, users, cache, pc,
                   local, pager, gwVars, regVars>>

\* variant of incrementUnreadCount whose update has no where clause
incrementUnreadCount_AllRows(c) ==
    unreadCount' = [d \in Conns |-> unreadCount[d] + 1]

\* variant of incrementUnreadCount that counts a message twice
incrementUnreadCount_Twice(c) ==
    unreadCount' = [unreadCount EXCEPT ![c] = @ + 2]

\* incrementUnreadCount(connectionId, role): unreadCount: { increment: 1 }
incrementUnreadCount(c) ==
    unreadCount' = [unreadCount EXCEPT ![c] = @ + 1]

\* resetUnreadCount(chatId, userId): unreadCount: 0 on the chat's connection
resetUnreadCount(ch) ==
    unreadCount' = [unreadCount EXCEPT ![chats[ch].connectionId] = 0]

\* variant of resetUnreadCount_error without the membership check
resetUnreadCount_error_NoAccess(ch, u) ==
    IF ch \notin ChatIds THEN "NotFound" ELSE ""

\* resetUnreadCount resolves the chat and verifies the caller's access
resetUnreadCount_error(ch, u) ==
    IF ch \notin ChatIds THEN "NotFound"
    ELSE IF ~hasAccess(ch, u) THEN "Forbidden"
    ELSE ""

\* a call of resetUnreadCount(chatId, userId)
ChatService_resetUnreadCount(ch, u) ==
    /\ Ready
    /\ LET e == resetUnreadCount_error(ch, u)
           r == [NoLast EXCEPT !.op = "resetUnreadCount", !.chat = ch,
                               !.user = u]
       IN  IF e # ""
             THEN /\ Result([r EXCEPT !.status = e])
                  /\ UNCHANGED unreadCount
             ELSE /\ resetUnreadCount(ch)
                  /\ Result([r EXCEPT !.status = "ok",
                                      !.conn = chats[ch].connectionId])
    /\ UNCHANGED <<connStatus, connLastMessageAt, connLastActivityAt, chats,
                   messages, now, users, cache, pc, local, pager, gwVars,
                   regVars>>

(***************************************************************************)
(* Identity snapshot cache (UserCacheService) and UsersService.           *)
(***************************************************************************)
\* getUserSnapshot(userId): the cached snapshot, or on a miss the user row
getUserSnapshot(u) == IF cache[u] # NoSnap THEN cache[u] ELSE users[u]

\* a dto field that is undefined leaves the column as it is
Undefined == "undefined"

Patch(old, new) == IF new = Undefined THEN old ELSE new

\* UsersService.updateProfile(userId, dto): getUserOrThrow, then user.update
\* of firstName and lastName; the snapshot cache is not touched.  A send of
\* this user that is in flight is marked as overlapping the rename.
updateProfile(u, first, last_) ==
    /\ Ready
    /\ IF u \notin Users
         THEN /\ Result([NoLast EXCEPT !.op = "updateProfile", !.user = u,
                                       !.status = "NotFound"])
              /\ UNCHANGED <<users, local>>
         ELSE /\ users' = [users EXCEPT
                             ![u] = [firstName |-> Patch(@.firstName, first),
                                     lastName |-> Patch(@.lastName, last_)]]
              /\ local' = [p \in Procs |->
                             IF local[p].user = u
                               THEN [local[p] EXCEPT !.renamed = TRUE]
                               ELSE local[p]]
              /\ Result([NoLast EXCEPT !.op = "updateProfile", !.user = u,
                                       !.status = "ok",
                                       !.snap = users'[u]])
    /\ UNCHANGED <<connVars, chats, messages, now, cache, pc, pager, gwVars,
                   regVars>>

\* a cached snapshot reaches its time-to-live
CacheExpire(u) ==
    /\ Ready
    /\ cache[u] # NoSnap
    /\ cache' = [cache EXCEPT ![u] = NoSnap]
    /\ UNCHANGED <<connVars, chats, messages, now, users, pc, local, last,
                   pager, gwVars, regVars>>

(***************************************************************************)
(* Message Ledger: sendMessage(chatId, senderId, content, type).          *)
(***************************************************************************)
RECURSIVE trimStart(_)
trimStart(s) ==
    IF Len(s) > 0 /\ SubSeq(s, 1, 1) = " "
      THEN trimStart(SubSeq(s, 2, Len(s)))
      ELSE s

RECURSIVE trimEnd(_)
trimEnd(s) ==
    IF Len(s) > 0 /\ SubSeq(s, Len(s), Len(s)) = " "
      THEN trimEnd(SubSeq(s, 1, Len(s) - 1))
      ELSE s

\* content.trim()
trim(s) == trimEnd(trimStart(s))

Contents == {"", "  ", "Hello"}

\* 0 stands for an id that has no row
ChatIdInputs == ChatIds \cup {0}

MsgIdInputs == MsgIds \cup {0}

\* the request endpoint, or the realtime gateway's handler
Vias == {"http", "ws"}

SendPcs == {"send_snapshot", "send_create"}

InFlightSends == Cardinality({p \in Procs : pc[p] \in SendPcs})

SendRes(l, status) ==
    [NoLast EXCEPT !.op = "sendMessage", !.status = status, !.via = l.via,
                   !.conn = l.conn, !.chat = l.chat, !.user = l.user,
                   !.content = l.content, !.msg = l.msg, !.snap = l.snap,
                   !.updated = l.updated, !.incremented = l.incremented]

\* variant of sendMessage_error that tests the content without trimming it
sendMessage_error_NoTrim(ch, u, text) ==
    IF text = "" THEN "Validation"
    ELSE IF ch \notin ChatIds THEN "NotFound"
    ELSE IF ~hasAccess(ch, u) THEN "Forbidden"
    ELSE IF connStatus[chats[ch].connectionId] # "ACTIVE" THEN "InvalidState"
    ELSE ""

\* variant of sendMessage_error that checks the status before the access
sendMessage_error_StatusFirst(ch, u, text) ==
    IF trim(text) = "" THEN "Validation"
    ELSE IF ch \notin ChatIds THEN "NotFound"
    ELSE IF connStatus[chats[ch].connectionId] # "ACTIVE" THEN "InvalidState"
    ELSE IF ~hasAccess(ch, u) THEN "Forbidden"
    ELSE ""

\* variant of sendMessage_error without the connection status check
sendMessage_error_NoStatus(ch, u, text) ==
    IF trim(text) = "" THEN "Validation"
    ELSE IF ch \notin ChatIds THEN "NotFound"
    ELSE IF ~hasAccess(ch, u) THEN "Forbidden"
    ELSE ""

\* the order of sendMessage's checks: Validation, NotFound, Forbidden,
\* InvalidState; "" when the message may be sent
sendMessage_error(ch, u, text) ==
    IF trim(text) = "" THEN "Validation"
    ELSE IF ch \notin ChatIds THEN "NotFound"
    ELSE IF ~hasAccess(ch, u) THEN "Forbidden"
    ELSE IF connStatus[chats[ch].connectionId] # "ACTIVE" THEN "InvalidState"
    ELSE ""

\* the content check, chat.findUnique with its connection, hasAccess and the
\* status check
sendMessage_check(p, via, ch, u, text) ==
    /\ Ready
    /\ pc[p] = "idle"
    /\ LET l == [NoLocal EXCEPT !.via = via, !.chat = ch, !.user = u,
                                !.content = text,
                                !.conn = IF ch \in ChatIds
                                           THEN chats[ch].connectionId ELSE ""]
           e == sendMessage_error(ch, u, text)
       IN  IF e # ""
             THEN Return(p, SendRes(l, e))
             ELSE /\ TextCount + InFlightSends < MaxMsgs
                  /\ Goto(p, "send_snapshot", l)
    /\ UNCHANGED <<connVars, chats, messages, now, users, cache, pager, gwVars,
                   regVars>>

\* userCacheService.getUserSnapshot(senderId), cache first; a miss fills the
\* cache from the user row
sendMessage_snapshot(p) ==
    /\ Ready
    /\ pc[p] = "send_snapshot"
    /\ LET u == local[p].user
       IN  /\ cache' = [cache EXCEPT ![u] = getUserSnapshot(u)]
           /\ Goto(p, "send_create", [local[p] EXCEPT !.snap = getUserSnapshot(u)])
    /\ UNCHANGED <<connVars, chats, messages, now, users, pager, gwVars,
                   regVars>>

\* message.create; the caller then runs its follow-up steps
sendMessage_create(p) ==
    /\ Ready
    /\ pc[p] = "send_create"
    /\ LET l == local[p]
       IN  /\ messages' = Append(messages,
                                 NewMessage(l.chat, l.user, l.content, "TEXT", FALSE))
           /\ Goto(p, IF l.via = "http" THEN "http_followup" ELSE "ws_update",
                   [l EXCEPT !.msg = Len(messages) + 1])
    /\ UNCHANGED <<connVars, chats, now, users, cache, pager, gwVars, regVars>>

(***************************************************************************)
(* ChatController.sendMessage: after messageService.sendMessage it calls  *)
(* chatService.getChatDetails and chatService.updateConnectionLastMessage *)
(* and returns the message.                                               *)
(***************************************************************************)
ChatController_sendMessage_followUp(p) ==
    /\ Ready
    /\ pc[p] = "http_followup"
    /\ LET l == local[p]
       IN  /\ updateConnectionLastMessage(chats[l.chat].connectionId,
                                          messages[l.msg].createdAt, l.content)
           /\ Return(p, SendRes([l EXCEPT !.updated = @ + 1], "ok"))
    /\ UNCHANGED <<connStatus, unreadCount, messages, now, users, cache, pager, gwVars,
                   regVars>>

(***************************************************************************)
(* The gateway's send handler: the caller's two follow-up steps.          *)
(***************************************************************************)
Gateway_sendMessage_update(p) ==
    /\ Ready
    /\ pc[p] = "ws_update"
    /\ LET l == local[p]
       IN  /\ updateConnectionLastMessage(l.conn, messages[l.msg].createdAt,
                                          l.content)
           /\ Goto(p, "ws_increment", [l EXCEPT !.updated = @ + 1])
    /\ UNCHANGED <<connStatus, unreadCount, messages, now, users, cache, pager, gwVars,
                   regVars>>

Gateway_sendMessage_increment(p) ==
    /\ Ready
    /\ pc[p] = "ws_increment"
    /\ LET l == local[p]
       IN  /\ incrementUnreadCount(l.conn)
           /\ Return(p, SendRes([l EXCEPT !.incremented = @ + 1], "ok"))
    /\ UNCHANGED <<connStatus, connLastMessageAt, connLastActivityAt, chats,
                   messages, now, users, cache, pager, gwVars, regVars>>

(***************************************************************************)
(* Message Ledger: markAsRead, markAllAsRead, deleteMessage.              *)
(***************************************************************************)
MsgRes(op, status, m, u) ==
    [NoLast EXCEPT !.op = op, !.status = status, !.msg = m, !.user = u,
                   !.chat = IF m \in MsgIds THEN messages[m].chatId ELSE 0,
                   !.wasRead = IF m \in MsgIds THEN messages[m].isRead ELSE FALSE,
                   !.wasDeleted = IF m \in MsgIds THEN messages[m].isDeleted
                                  ELSE FALSE]

\* variant of markAsRead_error that refuses a message that is already read
markAsRead_error_AlreadyRead(m, u) ==
    IF m \notin MsgIds THEN "NotFound"
    ELSE IF ~hasAccess(messages[m].chatId, u) THEN "Forbidden"
    ELSE IF messages[m].senderId = u THEN "Validation"
    ELSE IF messages[m].isRead THEN "InvalidState"
    ELSE ""

\* variant of markAsRead_error: an already-read message is returned as it is
\* before the sender check
markAsRead_error_ReadFirst(m, u) ==
    IF m \notin MsgIds THEN "NotFound"
    ELSE IF ~hasAccess(messages[m].chatId, u) THEN "Forbidden"
    ELSE IF messages[m].isRead THEN ""
    ELSE IF messages[m].senderId = u THEN "Validation"
    ELSE ""

\* the order of markAsRead's checks: NotFound, Forbidden, own message
markAsRead_error(m, u) ==
    IF m \notin MsgIds THEN "NotFound"
    ELSE IF ~hasAccess(messages[m].chatId, u) THEN "Forbidden"
    ELSE IF messages[m].senderId = u THEN "Validation"
    ELSE ""

\* markAsRead(messageId, userId): message.update({ isRead: true })
markAsRead(m, u) ==
    /\ Ready
    /\ LET e == markAsRead_error(m, u)
       IN  IF e # ""
             THEN /\ Result(MsgRes("markAsRead", e, m, u))
                  /\ UNCHANGED messages
             ELSE /\ messages' = [messages EXCEPT ![m].isRead = TRUE]
                  /\ Result(MsgRes("markAsRead", "ok", m, u))
    /\ UNCHANGED <<connVars, chats, now, users, cache, pc, local, pager, gwVars,
                   regVars>>

\* variant of markAllAsRead_updateMany without the chatId filter
markAllAsRead_updateMany_AnyChat(ch, u) ==
    [m \in DOMAIN messages |->
       IF ~messages[m].isRead /\ messages[m].senderId # u
         THEN [messages[m] EXCEPT !.isRead = TRUE]
         ELSE messages[m]]

\* variant of markAllAsRead_updateMany without the senderId filter
markAllAsRead_updateMany_All(ch, u) ==
    [m \in DOMAIN messages |->
       IF messages[m].chatId = ch /\ ~messages[m].isRead
         THEN [messages[m] EXCEPT !.isRead = TRUE]
         ELSE messages[m]]

\* message.updateMany({ where: { chatId, isRead: false, senderId: { not:
\* userId } }, data: { isRead: true } })
markAllAsRead_updateMany(ch, u) ==
    [m \in DOMAIN messages |->
       IF /\ messages[m].chatId = ch
          /\ ~messages[m].isRead
          /\ messages[m].senderId # u
         THEN [messages[m] EXCEPT !.isRead = TRUE]
         ELSE messages[m]]

markAllAsRead_error(ch, u) ==
    IF ch \notin ChatIds THEN "NotFound"
    ELSE IF ~hasAccess(ch, u) THEN "Forbidden"
    ELSE ""

\* { message: 'All messages marked as read' }
AllReadText == "All messages marked as read"

AllReadRes(ch, u, status) ==
    [NoLast EXCEPT !.op = "markAllAsRead", !.status = status, !.chat = ch,
                   !.user = u, !.via = "http",
                   !.content = IF status = "ok" THEN AllReadText ELSE ""]

\* updateMany's { count }: the rows it changed
updateMany_count(ch, u) ==
    Cardinality({m \in MsgIds :
                    markAllAsRead_updateMany(ch, u)[m] # messages[m]})

\* ChatController.markAllAsRead: messageService.markAllAsRead(chatId, userId)
ChatController_markAllAsRead(p, ch, u) ==
    /\ Ready
    /\ pc[p] = "idle"
    /\ LET e == markAllAsRead_error(ch, u)
       IN  IF e # ""
             THEN /\ Return(p, AllReadRes(ch, u, e))
                  /\ UNCHANGED messages
             ELSE /\ messages' = markAllAsRead_updateMany(ch, u)
                  /\ Goto(p, "http_reset",
                          [NoLocal EXCEPT !.chat = ch, !.user = u,
                                          !.count = updateMany_count(ch, u)])
    /\ UNCHANGED <<connVars, chats, now, users, cache, pager, gwVars, regVars>>

\* ... then chatService.resetUnreadCount(chatId, userId)
ChatController_resetUnreadCount(p) ==
    /\ Ready
    /\ pc[p] = "http_reset"
    /\ resetUnreadCount(local[p].chat)
    /\ Return(p, AllReadRes(local[p].chat, local[p].user, "ok"))
    /\ UNCHANGED <<connStatus, connLastMessageAt, connLastActivityAt, chats,
                   messages, now, users, cache, pager, gwVars, regVars>>

\* variant of deleteMessage_error that lets any member of the chat delete
deleteMessage_error_AnyMember(m, u) ==
    IF m \notin MsgIds THEN "NotFound"
    ELSE IF ~hasAccess(messages[m].chatId, u) THEN "Forbidden"
    ELSE IF messages[m].isDeleted THEN "InvalidState"
    ELSE ""

\* variant of deleteMessage_error without the already-deleted check
deleteMessage_error_Again(m, u) ==
    IF m \notin MsgIds THEN "NotFound"
    ELSE IF messages[m].senderId # u THEN "Forbidden"
    ELSE ""

\* the order of deleteMessage's checks: NotFound, not the sender, deleted
deleteMessage_error(m, u) ==
    IF m \notin MsgIds THEN "NotFound"
    ELSE IF messages[m].senderId # u THEN "Forbidden"
    ELSE IF messages[m].isDeleted THEN "InvalidState"
    ELSE ""

\* variant of deleteMessage that blanks the content instead of writing the
\* placeholder
deleteMessage_Scrub(m, u) ==
    /\ Ready
    /\ LET e == deleteMessage_error(m, u)
       IN  IF e # ""
             THEN /\ Result(MsgRes("deleteMessage", e, m, u))
                  /\ UNCHANGED messages
             ELSE /\ messages' = [messages EXCEPT
                                    ![m].isDeleted = TRUE,
                                    ![m].content = "",
                                    ![m].messageType = "DELETED"]
                  /\ Result(MsgRes("deleteMessage", "ok", m, u))
    /\ UNCHANGED <<connVars, chats, now, users, cache, pc, local, pager, gwVars,
                   regVars>>

\* deleteMessage(messageId, userId): message.update({ isDeleted: true,
\* content: 'This message was deleted', messageType: 'DELETED' })
deleteMessage(m, u) ==
    /\ Ready
    /\ LET e == deleteMessage_error(m, u)
       IN  IF e # ""
             THEN /\ Result(MsgRes("deleteMessage", e, m, u))
                  /\ UNCHANGED messages
             ELSE /\ messages' = [messages EXCEPT
                                    ![m].isDeleted = TRUE,
                                    ![m].content = DeletedText,
                                    ![m].messageType = "DELETED"]
                  /\ Result(MsgRes("deleteMessage", "ok", m, u))
    /\ UNCHANGED <<connVars, chats, now, users, cache, pc, local, pager, gwVars,
                   regVars>>

\* variant of getUnreadCount that also counts deleted messages
getUnreadCount_WithDeleted(ch, u) ==
    Cardinality({m \in MessagesOfChat(ch) :
                    /\ ~messages[m].isRead
                    /\ messages[m].senderId # u})

\* MessageService.getUnreadCount(chatId, userId): message.count({ where: {
\* chatId, isRead: false, senderId: { not: userId }, isDeleted: false } })
getUnreadCount(ch, u) ==
    Cardinality({m \in MessagesOfChat(ch) :
                    /\ ~messages[m].isRead
                    /\ ~messages[m].isDeleted
                    /\ messages[m].senderId # u})

\* ChatController.getChatUnreadCount(chatId, userId): { count } of
\* messageService.getUnreadCount(chatId, userId)
ChatController_getChatUnreadCount(ch, u) ==
    /\ Ready
    /\ Result([NoLast EXCEPT !.op = "getChatUnreadCount", !.status = "ok",
                             !.chat = ch, !.user = u,
                             !.count = getUnreadCount(ch, u)])
    /\ UNCHANGED <<connVars, chats, messages, now, users, cache, pc, local,
                   pager, gwVars, regVars>>

(***************************************************************************)
(* Message Ledger: getMessages(chatId, userId, { cursor, limit }).        *)
(***************************************************************************)
\* page sizes a client asks for
MaxLimit == 2

\* the time-to-live of a presence entry, in ticks of the presence store
PresenceTtl == 2

\* orderBy: [{ createdAt: 'desc' }, { id: 'desc' }]
Newer(a, b) ==
    \/ messages[a].createdAt > messages[b].createdAt
    \/ messages[a].createdAt = messages[b].createdAt /\ a > b

\* where: { chatId, createdAt: { lt: cursor } }; cursor 0: no cursor
OlderThan(ch, cursor) ==
    {m \in MessagesOfChat(ch) : cursor = 0 \/ messages[m].createdAt < cursor}

\* take: limit, of the rows in that order
RECURSIVE TakeNewest(_, _)
TakeNewest(S, k) ==
    IF k = 0 \/ S = {} THEN <<>>
    ELSE LET top == CHOOSE m \in S : \A n \in S \ {m} : Newer(m, n)
         IN  <<top>> \o TakeNewest(S \ {top}, k - 1)

\* { messages, cursor: createdAt of the last returned message, hasMore }
getMessages(ch, cursor, limit) ==
    LET page == TakeNewest(OlderThan(ch, cursor), limit)
        next == IF page = <<>> THEN 0 ELSE messages[page[Len(page)]].createdAt
    IN  [messages |-> page,
         cursor |-> next,
         hasMore |-> page # <<>> /\ OlderThan(ch, next) # {}]

getMessages_error(ch, u) ==
    IF ch \notin ChatIds THEN "NotFound"
    ELSE IF ~hasAccess(ch, u) THEN "Forbidden"
    ELSE ""

PageRes(ch, u, status) ==
    [NoLast EXCEPT !.op = "getMessages", !.status = status, !.chat = ch,
                   !.user = u]

\* a client asks for the first page of a chat, without a cursor
Pager_first(ch, u, limit) ==
    /\ Ready
    /\ pager.state = "off"
    /\ LET e == getMessages_error(ch, u)
           r == getMessages(ch, 0, limit)
       IN  IF e # ""
             THEN /\ Result(PageRes(ch, u, e))
                  /\ UNCHANGED pager
             ELSE /\ Result(PageRes(ch, u, "ok"))
                  /\ pager' = [state |-> IF r.hasMore THEN "paging" ELSE "done",
                               chat |-> ch, user |-> u, limit |-> limit,
                               cursor |-> r.cursor, seen |-> r.messages,
                               start |-> MessagesOfChat(ch),
                               hasMore |-> r.hasMore]
    /\ UNCHANGED <<connVars, chats, messages, now, users, cache, pc, local,
                   gwVars, regVars>>

\* ... and, while hasMore, for the next page with the returned cursor
Pager_next ==
    /\ Ready
    /\ pager.state = "paging"
    /\ LET r == getMessages(pager.chat, pager.cursor, pager.limit)
       IN  /\ Result(PageRes(pager.chat, pager.user, "ok"))
           /\ pager' = [pager EXCEPT
                          !.state = IF r.hasMore THEN "paging" ELSE "done",
                          !.cursor = r.cursor,
                          !.seen = pager.seen \o r.messages,
                          !.hasMore = r.hasMore]
    /\ UNCHANGED <<connVars, chats, messages, now, users, cache, pc, local,
                   gwVars, regVars>>

\* the client is done with the chat
Pager_close ==
    /\ Ready
    /\ pager.state = "done"
    /\ pager' = NoPager
    /\ UNCHANGED <<connVars, chats, messages, now, users, cache, pc, local,
                   last, gwVars, regVars>>

(***************************************************************************)
(* Event Relay: the realtime event of a successful mutation and its       *)
(* best-effort delivery.                                                  *)
(***************************************************************************)
\* the event a result is published as ("": none)
EventOf(r) ==
    IF r.status # "ok" THEN ""
    ELSE IF r.op = "sendMessage" THEN "message.created"
    ELSE IF r.op = "markAsRead" THEN "message.read"
    ELSE IF r.op = "markAllAsRead" THEN "messages.read.bulk"
    ELSE IF r.op = "deleteMessage" THEN "message.deleted"
    ELSE ""

Deliveries == {"delivered", "failed"}

\* variant of messagesAfterDelivery that undoes the mutation when the
\* delivery failed
messagesAfterDelivery_Rollback(r, outcome) ==
    IF outcome # "failed" THEN messages
    ELSE IF r.op = "sendMessage" THEN SubSeq(messages, 1, r.msg - 1)
    ELSE IF r.op = "markAsRead"
      THEN [messages EXCEPT ![r.msg].isRead = r.wasRead]
    ELSE IF r.op = "deleteMessage"
      THEN [messages EXCEPT ![r.msg].isDeleted = r.wasDeleted]
    ELSE messages

\* persistence is authoritative: the rows stay whatever the delivery did
messagesAfterDelivery(r, outcome) == messages

\* the event of the result that is about to leave is pushed to the
\* counterpart's sockets, or the push fails
ChatEvents_deliver(outcome) ==
    /\ EventOf(last) # ""
    /\ last.delivery = ""
    /\ messages' = messagesAfterDelivery(last, outcome)
    /\ last' = [last EXCEPT !.delivery = outcome]
    /\ UNCHANGED <<connVars, chats, now, users, cache, pc, local, pager, gwVars,
                   regVars>>

(***************************************************************************)
(* Realtime Gateway and Presence Tracker: sockets, their subscriptions    *)
(* and the presence entries of their users.                               *)
(***************************************************************************)
Sockets == {"s1", "s2", "s3"}

\* the authenticated user of a socket
SocketUser(s) == IF s = "s3" THEN "user-pat" ELSE "user-doc"

NoSocket == [state |-> "closed", scope |-> FALSE, rooms |-> {}]

\* the user's sockets whose connection is alive
LiveSockets(u) ==
    {s \in Sockets : SocketUser(s) = u /\ sockets[s].state = "open"}

\* the user's sockets the gateway still holds: a silent one is held until
\* its heartbeat window has passed
HeldSockets(u) ==
    {s \in Sockets : SocketUser(s) = u /\ sockets[s].state # "closed"}

\* a presence lookup: no entry is offline
isUserOnline(u) == presence[u] > 0

\* an authenticated socket connects: it is subscribed to its user's
\* notification scope and the user is registered as online
Gateway_handleConnection(s) ==
    /\ sockets[s].state = "closed"
    /\ sockets' = [sockets EXCEPT ![s] = [state |-> "open", scope |-> TRUE,
                                          rooms |-> {}]]
    /\ presence' = [presence EXCEPT ![SocketUser(s)] = PresenceTtl]
    /\ UNCHANGED <<connVars, chats, messages, now, users, cache, pc, local,
                   last, pager, regVars>>

\* the socket joins the room of a chat its user has access to
Gateway_joinChat(s, ch) ==
    /\ sockets[s].state = "open"
    /\ ch \in ChatIds
    /\ hasAccess(ch, SocketUser(s))
    /\ ch \notin sockets[s].rooms
    /\ sockets' = [sockets EXCEPT ![s].rooms = @ \cup {ch}]
    /\ UNCHANGED <<connVars, chats, messages, now, users, cache, pc, local,
                   last, pager, presence, regVars>>

\* a heartbeat of a live socket refreshes the entry's time-to-live
Gateway_heartbeat(s) ==
    /\ sockets[s].state = "open"
    /\ presence[SocketUser(s)] < PresenceTtl
    /\ presence' = [presence EXCEPT ![SocketUser(s)] = PresenceTtl]
    /\ UNCHANGED <<connVars, chats, messages, now, users, cache, pc, local,
                   last, pager, sockets, regVars>>

\* every subscription of the socket is released
socketAfterDisconnect(s) == NoSocket

\* the user is de-registered with its last held socket; while the store is
\* unavailable the entry stays, to expire
presenceAfterDisconnect(s, storeUp) ==
    IF storeUp /\ HeldSockets(SocketUser(s)) \ {s} = {}
      THEN [presence EXCEPT ![SocketUser(s)] = 0]
      ELSE presence

\* the client closes the socket
Gateway_handleDisconnect(s, storeUp) ==
    /\ sockets[s].state = "open"
    /\ sockets' = [sockets EXCEPT ![s] = socketAfterDisconnect(s)]
    /\ presence' = presenceAfterDisconnect(s, storeUp)
    /\ UNCHANGED <<connVars, chats, messages, now, users, cache, pc, local,
                   last, pager, regVars>>

\* the connection drops: the socket goes silent
Socket_lost(s) ==
    /\ sockets[s].state = "open"
    /\ sockets' = [sockets EXCEPT ![s].state = "silent"]
    /\ UNCHANGED <<connVars, chats, messages, now, users, cache, pc, local,
                   last, pager, presence, regVars>>

\* a socket silent beyond the heartbeat window is treated as disconnected
Gateway_heartbeatTimeout(s, storeUp) ==
    /\ sockets[s].state = "silent"
    /\ sockets' = [sockets EXCEPT ![s] = socketAfterDisconnect(s)]
    /\ presence' = presenceAfterDisconnect(s, storeUp)
    /\ UNCHANGED <<connVars, chats, messages, now, users, cache, pc, local,
                   last, pager, regVars>>

\* variant of presenceAfterTick for entries without a time-to-live
presenceAfterTick_NoTtl(u) == presence

\* a tick of the presence store: the entry has one tick less to live
presenceAfterTick(u) == [presence EXCEPT ![u] = @ - 1]

\* the entry ages; the heartbeats of a live socket arrive before it expires
Presence_expire(u) ==
    /\ presence[u] > 0
    /\ LiveSockets(u) # {} => presence[u] > 1
    /\ presence' = presenceAfterTick(u)
    /\ UNCHANGED <<connVars, chats, messages, now, users, cache, pc, local,
                   last, pager, sockets, regVars>>

(***************************************************************************)
(* Registration (RegisterProvider, UsersService): the User rows of the    *)
(* accounts, their email verification codes and their profile rows.       *)
(***************************************************************************)
Accounts == {"acc-1", "acc-2"}

\* createInitialUser's temporary email: `temp_${Date.now()}@temp.com`
TempEmail(a) == IF a = "acc-1" THEN "temp_1@temp.com" ELSE "temp_2@temp.com"

Emails == {"ahmed@mail.com", "mona@mail.com"}

NationalIds == {"29901011234567"}

\* no User row with this id
NoAccount ==
    [status |-> "NONE", registrationStep |-> 0, email |-> "", role |-> "",
     isActive |-> FALSE, isProfileComplete |-> FALSE, nationalId |-> ""]

\* no code was issued
NoOtp == [valid |-> FALSE, accepted |-> FALSE]

AccountIds == {a \in Accounts : accounts[a].status # "NONE"}

RegRes(op, status, a) ==
    [NoLast EXCEPT !.op = op, !.status = status, !.user = a]

\* createInitialUser(role): a temporary user in status INIT, step 0
createInitialUser(a, role) ==
    accounts' = [accounts EXCEPT ![a] =
                   [NoAccount EXCEPT !.status = "INIT", !.email = TempEmail(a),
                                     !.role = role]]

\* registerInit(dto): the next free id gets the temporary user
registerInit(role) ==
    /\ Ready
    /\ Accounts \ AccountIds # {}
    /\ LET a == IF "acc-1" \notin AccountIds THEN "acc-1" ELSE "acc-2"
       IN  /\ createInitialUser(a, role)
           /\ Result(RegRes("registerInit", "ok", a))
    /\ UNCHANGED <<connVars, chats, messages, now, users, cache, pc, local,
                   pager, gwVars, otps, profiles>>

\* registerBasice: the password confirmation and user.findUnique of the
\* temp user, which must be in status INIT
registerBasice_session(p, a, email, confirmed) ==
    /\ Ready
    /\ pc[p] = "idle"
    /\ IF ~confirmed \/ accounts[a].status # "INIT"
         THEN Return(p, [RegRes("registerBasice", "BadRequest", a)
                           EXCEPT !.email = email])
         ELSE Goto(p, "rb_email", [NoLocal EXCEPT !.user = a, !.email = email])
    /\ UNCHANGED <<connVars, chats, messages, now, users, cache, pager,
                   gwVars, regVars>>

\* user.findFirst({ where: { email } }): Conflict when another user holds it
registerBasice_email(p) ==
    /\ Ready
    /\ pc[p] = "rb_email"
    /\ LET l == local[p]
       IN  IF \E b \in AccountIds \ {l.user} : accounts[b].email = l.email
             THEN Return(p, [RegRes("registerBasice", "Conflict", l.user)
                               EXCEPT !.email = l.email])
             ELSE Goto(p, "rb_update", l)
    /\ UNCHANGED <<connVars, chats, messages, now, users, cache, pager,
                   gwVars, regVars>>

\* User.email is unique (findByEmail looks users up with findUniqueOrThrow)
EmailUniqueViolation(a, email) ==
    \E b \in AccountIds \ {a} : accounts[b].email = email

\* updateBasicData: the email, names and password, PENDING_EMAIL_VERIFICATION
\* and step 1
updateBasicData(a, email) ==
    accounts' = [accounts EXCEPT ![a].email = email,
                                 ![a].status = "PENDING_EMAIL_VERIFICATION",
                                 ![a].registrationStep = 1]

\* after hashPassword: usersService.updateBasicData(dto, hash); the store
\* refuses an email that another row holds
registerBasice_update(p) ==
    /\ Ready
    /\ pc[p] = "rb_update"
    /\ LET l == local[p]
       IN  IF EmailUniqueViolation(l.user, l.email)
             THEN /\ Return(p, [RegRes("registerBasice", "Error", l.user)
                                  EXCEPT !.email = l.email])
                  /\ UNCHANGED accounts
             ELSE /\ updateBasicData(l.user, l.email)
                  /\ Goto(p, "rb_otp", l)
    /\ UNCHANGED <<connVars, chats, messages, now, users, cache, pager,
                   gwVars, otps, profiles>>

\* otp.generateAndSendOtp(updatedUser.id, 'EMAIL_VERIFICATION')
registerBasice_otp(p) ==
    /\ Ready
    /\ pc[p] = "rb_otp"
    /\ otps' = [otps EXCEPT ![local[p].user].valid = TRUE]
    /\ Return(p, [RegRes("registerBasice", "ok", local[p].user)
                    EXCEPT !.email = local[p].email])
    /\ UNCHANGED <<connVars, chats, messages, now, users, cache, pager,
                   gwVars, accounts, profiles>>

\* otp.verifyOtp(userId, otp, 'EMAIL_VERIFICATION'): the code that was
\* issued for the user is accepted; the provider may or may not retire an
\* accepted code
registerVerifyEmail_verifyOtp(p, a, code) ==
    /\ Ready
    /\ pc[p] = "idle"
    /\ IF otps[a].valid /\ code = "issued"
         THEN /\ \E retired \in BOOLEAN :
                   otps' = [otps EXCEPT ![a] = [valid |-> ~retired,
                                               accepted |-> TRUE]]
              /\ Goto(p, "ve_update", [NoLocal EXCEPT !.user = a])
         ELSE /\ Return(p, RegRes("registerVerifyEmail", "BadRequest", a))
              /\ UNCHANGED otps
    /\ UNCHANGED <<connVars, chats, messages, now, users, cache, pager,
                   gwVars, accounts, profiles>>

\* updateUserStatus(userId, status, registrationStep): getUserOrThrow, then
\* the update of both fields
updateUserStatus(a, status, registrationStep) ==
    accounts' = [accounts EXCEPT ![a].status = status,
                                 ![a].registrationStep = registrationStep]

\* usersService.updateUserStatus(userId, EMAIL_VERIFIED, 2)
registerVerifyEmail_update(p) ==
    /\ Ready
    /\ pc[p] = "ve_update"
    /\ LET a == local[p].user
       IN  IF a \notin AccountIds
             THEN /\ Return(p, RegRes("registerVerifyEmail", "NotFound", a))
                  /\ UNCHANGED accounts
             ELSE /\ updateUserStatus(a, "EMAIL_VERIFIED", 2)
                  /\ Return(p, RegRes("registerVerifyEmail", "ok", a))
    /\ UNCHANGED <<connVars, chats, messages, now, users, cache, pager,
                   gwVars, otps, profiles>>

\* completeUserProfile: getUserOrThrow and the status check
completeUserProfile_session(p, a, nationalId) ==
    /\ Ready
    /\ pc[p] = "idle"
    /\ IF a \notin AccountIds
         THEN Return(p, RegRes("completeUserProfile", "NotFound", a))
         ELSE IF accounts[a].status # "EMAIL_VERIFIED"
           THEN Return(p, RegRes("completeUserProfile", "BadRequest", a))
           ELSE Goto(p, "cp_nationalId",
                     [NoLocal EXCEPT !.user = a, !.nationalId = nationalId,
                                     !.role = accounts[a].role])
    /\ UNCHANGED <<connVars, chats, messages, now, users, cache, pager,
                   gwVars, regVars>>

\* completeAdditionalProfile: user.findFirst({ where: { nationalId, id: {
\* not: userId } } }), Conflict when found
completeAdditionalProfile_exist(p) ==
    /\ Ready
    /\ pc[p] = "cp_nationalId"
    /\ LET l == local[p]
       IN  IF \E b \in AccountIds \ {l.user} :
                 accounts[b].nationalId = l.nationalId
             THEN Return(p, RegRes("completeUserProfile", "Conflict", l.user))
             ELSE Goto(p, "cp_update", l)
    /\ UNCHANGED <<connVars, chats, messages, now, users, cache, pager,
                   gwVars, regVars>>

\* completeAdditionalProfile: the update to PENDING_ADMIN_APPROVAL, step 3
completeAdditionalProfile_update(p) ==
    /\ Ready
    /\ pc[p] = "cp_update"
    /\ LET l == local[p]
       IN  /\ accounts' = [accounts EXCEPT
                             ![l.user].nationalId = l.nationalId,
                             ![l.user].status = "PENDING_ADMIN_APPROVAL",
                             ![l.user].isActive = FALSE,
                             ![l.user].isProfileComplete = TRUE,
                             ![l.user].registrationStep = 3]
           /\ Goto(p, "cp_profile", l)
    /\ UNCHANGED <<connVars, chats, messages, now, users, cache, pager,
                   gwVars, otps, profiles>>

\* Patient.userId and Doctor.userId are unique: a user has one patient or
\* doctor (baseUserInfo selects user.patient, user.doctor)
ProfileUniqueViolation(a) == profiles[a] >= 1

\* patient.create / doctor.create for the role read at the start; the
\* create fails on a second row for the user, and may fail otherwise
completeUserProfile_create(p) ==
    /\ Ready
    /\ pc[p] = "cp_profile"
    /\ LET l == local[p]
       IN  IF l.role \notin {"patient", "doctor"}
             THEN /\ Return(p, RegRes("completeUserProfile", "ok", l.user))
                  /\ UNCHANGED profiles
             ELSE IF ProfileUniqueViolation(l.user)
               THEN /\ Return(p, RegRes("completeUserProfile", "Error", l.user))
                    /\ UNCHANGED profiles
               ELSE \E fails \in BOOLEAN :
                      /\ profiles' = IF fails THEN profiles
                                     ELSE [profiles EXCEPT ![l.user] = @ + 1]
                      /\ Return(p, RegRes("completeUserProfile",
                                          IF fails THEN "Error" ELSE "ok",
                                          l.user))
    /\ UNCHANGED <<connVars, chats, messages, now, users, cache, pager,
                   gwVars, accounts, otps>>

\* deactivateUser(userId, currentUserId) by an admin
deactivateUser(a) ==
    /\ Ready
    /\ IF a \notin AccountIds
         THEN /\ Result(RegRes("deactivateUser", "NotFound", a))
              /\ UNCHANGED accounts
         ELSE /\ accounts' = [accounts EXCEPT ![a].isActive = FALSE,
                                              ![a].status = "INACTIVE"]
              /\ Result(RegRes("deactivateUser", "ok", a))
    /\ UNCHANGED <<connVars, chats, messages, now, users, cache, pc, local,
                   pager, gwVars, otps, profiles>>

\* activateUser(userId): ACTIVE when the profile is complete, else
\* EMAIL_VERIFIED
activateUser(a) ==
    /\ Ready
    /\ IF a \notin AccountIds
         THEN /\ Result(RegRes("activateUser", "NotFound", a))
              /\ UNCHANGED accounts
         ELSE /\ accounts' = [accounts EXCEPT
                                ![a].isActive = TRUE,
                                ![a].status = IF accounts[a].isProfileComplete
                                                THEN "ACTIVE"
                                                ELSE "EMAIL_VERIFIED"]
              /\ Result(RegRes("activateUser", "ok", a))
    /\ UNCHANGED <<connVars, chats, messages, now, users, cache, pc, local,
                   pager, gwVars, otps, profiles>>

(***************************************************************************)
(* Initial states.                                                        *)
(***************************************************************************)
InitStore ==
    /\ connStatus = [c \in Conns |-> "ACTIVE"]
    /\ unreadCount = [c \in Conns |-> 0]
    /\ connLastMessageAt = [c \in Conns |-> 0]
    /\ connLastActivityAt = [c \in Conns |-> 0]
    /\ now = 1
    /\ users = [u \in Users |-> [firstName |-> "Ahmed", lastName |-> "Ali"]]
    /\ cache = [u \in Users |-> NoSnap]
    /\ pc = [p \in Procs |-> "idle"]
    /\ local = [p \in Procs |-> NoLocal]
    /\ last = NoLast
    /\ pager = NoPager
    /\ sockets = [s \in Sockets |-> NoSocket]
    /\ presence = [u \in Users |-> 0]
    /\ accounts = [a \in Accounts |-> NoAccount]
    /\ otps = [a \in Accounts |-> NoOtp]
    /\ profiles = [a \in Accounts |-> 0]

\* both connections ACTIVE, no chat yet
Init ==
    /\ InitStore
    /\ chats = <<>>
    /\ messages = <<>>

\* the state after getOrCreateChat("conn-123") has opened that chat
InitOpened ==
    /\ InitStore
    /\ chats = <<NewChat("conn-123")>>
    /\ messages = <<ChatStartedMessage(1, "conn-123")>>

\* the state after the chats of both connections have been opened
InitBoth ==
    /\ InitStore
    /\ chats = <<NewChat("conn-123"), NewChat("conn-1")>>
    /\ messages = <<ChatStartedMessage(1, "conn-123"),
                    ChatStartedMessage(2, "conn-1")>>

(***************************************************************************)
(* Specifications.                                                        *)
(***************************************************************************)
\* one request handler at a time
One == {"h1"}

GetOrCreateChat(H) ==
    \/ \E p \in H, c \in ConnIds : getOrCreateChat_connection(p, c)
    \/ \E p \in H : getOrCreateChat_find(p)
    \/ \E p \in H : getOrCreateChat_create(p)

SendMessage(H, V) ==
    \/ \E p \in H, via \in V, ch \in ChatIdInputs, u \in Users,
          text \in Contents : sendMessage_check(p, via, ch, u, text)
    \/ \E p \in H : sendMessage_snapshot(p)
    \/ \E p \in H : sendMessage_create(p)

HttpFollowUp(H) == \E p \in H : ChatController_sendMessage_followUp(p)

GatewayFollowUp(H) ==
    \/ \E p \in H : Gateway_sendMessage_update(p)
    \/ \E p \in H : Gateway_sendMessage_increment(p)

ReadAndDelete(H) ==
    \/ \E m \in MsgIdInputs, u \in Users : markAsRead(m, u)
    \/ \E p \in H, ch \in ChatIdInputs, u \in Users :
          ChatController_markAllAsRead(p, ch, u)
    \/ \E p \in H : ChatController_resetUnreadCount(p)
    \/ \E m \in MsgIdInputs, u \in Users : deleteMessage(m, u)

Paging ==
    \/ \E ch \in ChatIdInputs, u \in Users, k \in 1..MaxLimit :
          Pager_first(ch, u, k)
    \/ Pager_next
    \/ Pager_close

ConnectionStatus ==
    \E c \in Conns, s \in {"ACTIVE", "INACTIVE"} : SetConnectionStatus(c, s)

Profiles ==
    \/ \E u \in Users \cup {"unknown-user"}, f, l \in Names \cup {Undefined} :
          updateProfile(u, f, l)
    \/ \E u \in Users : CacheExpire(u)

\* the Chat Directory under concurrent getOrCreateChat requests
NextDirectory == GetOrCreateChat(Procs) \/ ConnectionStatus \/ Respond

SpecDirectory == Init /\ [][NextDirectory]_vars

Access ==
    \/ \E ch \in ChatIdInputs, u \in Callers : verifyUserAccess(ch, u)
    \/ \E ch \in ChatIdInputs, u \in Callers : getChatDetails(ch, u)

\* the access operations while chats are being opened
NextAccess == GetOrCreateChat(Procs) \/ Access \/ Respond

SpecAccess == Init /\ [][NextAccess]_vars

\* sending on the opened chat while the connection's status changes
NextSend ==
    \/ SendMessage(One, Vias)
    \/ HttpFollowUp(One)
    \/ GatewayFollowUp(One)
    \/ ConnectionStatus
    \/ Respond

SpecSend == InitOpened /\ [][NextSend]_vars

\* the Message Ledger and its callers on the opened chat
NextLedger ==
    \/ SendMessage(One, Vias)
    \/ HttpFollowUp(One)
    \/ GatewayFollowUp(One)
    \/ ReadAndDelete(One)
    \/ Respond

SpecLedger == InitOpened /\ [][NextLedger]_vars

\* counting the unread messages of the opened chat between sends, reads and
\* deletions
NextCount ==
    \/ SendMessage(One, {"http"})
    \/ HttpFollowUp(One)
    \/ \E m \in MsgIdInputs, u \in Users : markAsRead(m, u)
    \/ \E m \in MsgIdInputs, u \in Users : deleteMessage(m, u)
    \/ \E ch \in ChatIdInputs, u \in Users :
          ChatController_getChatUnreadCount(ch, u)
    \/ Respond

SpecCount == InitOpened /\ [][NextCount]_vars

\* calls of updateConnectionLastMessage on the two opened chats
NextPreview ==
    \/ \E c \in Conns, t \in 1..MaxTime, preview \in Previews :
          ChatService_updateConnectionLastMessage(c, t, preview)
    \/ Respond

SpecPreview == InitBoth /\ [][NextPreview]_vars

\* two gateway handlers sending on the two opened chats at the same time
NextGateway ==
    \/ SendMessage(Procs, {"ws"})
    \/ GatewayFollowUp(Procs)
    \/ Respond

SpecGateway == InitBoth /\ [][NextGateway]_vars

\* the callers' overviews while messages arrive through the gateway
NextOverview ==
    \/ SendMessage(One, {"ws"})
    \/ GatewayFollowUp(One)
    \/ \E u \in Callers, role \in {"DOCTOR", "PATIENT"} :
          ChatService_getUnreadCount(u, role)
    \/ \E u \in Callers, role \in Roles : getUserChats(u, role)
    \/ Respond

SpecOverview == InitBoth /\ [][NextOverview]_vars

\* resetting the counters while messages arrive through the gateway
NextReset ==
    \/ SendMessage(One, {"ws"})
    \/ GatewayFollowUp(One)
    \/ \E ch \in ChatIdInputs, u \in Callers :
          ChatService_resetUnreadCount(ch, u)
    \/ Respond

SpecReset == InitBoth /\ [][NextReset]_vars

\* the mutations of the Message Ledger and the delivery of their events
NextRelay ==
    \/ SendMessage(One, {"http"})
    \/ HttpFollowUp(One)
    \/ ReadAndDelete(One)
    \/ \E outcome \in Deliveries : ChatEvents_deliver(outcome)
    \/ Respond

SpecRelay == InitOpened /\ [][NextRelay]_vars

\* sockets connecting, joining, beating, closing and dropping
NextPresence ==
    \/ \E s \in Sockets : Gateway_handleConnection(s)
    \/ \E s \in Sockets, ch \in ChatIdInputs : Gateway_joinChat(s, ch)
    \/ \E s \in Sockets : Gateway_heartbeat(s)
    \/ \E s \in Sockets, storeUp \in BOOLEAN :
          Gateway_handleDisconnect(s, storeUp)
    \/ \E s \in Sockets : Socket_lost(s)
    \/ \E s \in Sockets, storeUp \in BOOLEAN :
          Gateway_heartbeatTimeout(s, storeUp)
    \/ \E u \in Users : Presence_expire(u)

SpecPresence == InitBoth /\ [][NextPresence]_vars

\* the heartbeat window of a silent socket runs out, and the presence store
\* keeps ticking
SpecPresenceFair ==
    /\ SpecPresence
    /\ \A s \in Sockets :
           WF_vars(\E storeUp \in BOOLEAN : Gateway_heartbeatTimeout(s, storeUp))
    /\ \A u \in Users : WF_vars(Presence_expire(u))

\* the get-or-create-chat endpoint and its callers
NextEndpoint ==
    \/ GetOrCreateChat(One)
    \/ \E u \in Callers : ChatController_getOrCreateChat_verify(u)
    \/ ConnectionStatus
    \/ (last.op # "getOrCreateChat" /\ Respond)

SpecEndpoint == Init /\ [][NextEndpoint]_vars

\* two request handlers sending on the opened chat while the clock advances
NextFollowUp ==
    \/ SendMessage(Procs, {"http"})
    \/ HttpFollowUp(Procs)
    \/ Tick
    \/ Respond

SpecFollowUp == InitOpened /\ [][NextFollowUp]_vars

RegisterBasice(H) ==
    \/ \E p \in H, a \in Accounts, email \in Emails, confirmed \in BOOLEAN :
          registerBasice_session(p, a, email, confirmed)
    \/ \E p \in H : registerBasice_email(p)
    \/ \E p \in H : registerBasice_update(p)
    \/ \E p \in H : registerBasice_otp(p)

RegisterVerifyEmail(H) ==
    \/ \E p \in H, a \in Accounts, code \in {"issued", "wrong"} :
          registerVerifyEmail_verifyOtp(p, a, code)
    \/ \E p \in H : registerVerifyEmail_update(p)

CompleteUserProfile(H) ==
    \/ \E p \in H, a \in Accounts, nationalId \in NationalIds :
          completeUserProfile_session(p, a, nationalId)
    \/ \E p \in H : completeAdditionalProfile_exist(p)
    \/ \E p \in H : completeAdditionalProfile_update(p)
    \/ \E p \in H : completeUserProfile_create(p)

\* the registration steps of the accounts, one request at a time
NextRegister ==
    \/ \E role \in {"patient", "doctor"} : registerInit(role)
    \/ RegisterBasice(One)
    \/ RegisterVerifyEmail(One)
    \/ CompleteUserProfile(One)
    \/ Respond

SpecRegister == Init /\ [][NextRegister]_vars

\* two registration requests at a time
NextRegisterRace ==
    \/ \E role \in {"patient", "doctor"} : registerInit(role)
    \/ RegisterBasice(Procs)
    \/ RegisterVerifyEmail(Procs)
    \/ CompleteUserProfile(Procs)
    \/ Respond

SpecRegisterRace == Init /\ [][NextRegisterRace]_vars

\* the registration steps and the admin's activation and deactivation
NextAdmin ==
    \/ NextRegister
    \/ \E a \in Accounts : deactivateUser(a)
    \/ \E a \in Accounts : activateUser(a)

SpecAdmin == Init /\ [][NextAdmin]_vars

\* two opened chats of the same doctor: sending and reading in both
NextInbox ==
    \/ SendMessage(One, {"http"})
    \/ HttpFollowUp(One)
    \/ \E p \in One, ch \in ChatIdInputs, u \in Users :
          ChatController_markAllAsRead(p, ch, u)
    \/ \E p \in One : ChatController_resetUnreadCount(p)
    \/ Respond

SpecInbox == InitBoth /\ [][NextInbox]_vars

\* paging through a chat while messages are sent
NextPaging ==
    \/ SendMessage(One, {"http"})
    \/ HttpFollowUp(One)
    \/ Paging
    \/ Tick
    \/ Respond

SpecPaging == InitOpened /\ [][NextPaging]_vars

\* sending while profiles are renamed and snapshots expire
NextCache ==
    \/ SendMessage(One, {"http"})
    \/ HttpFollowUp(One)
    \/ Profiles
    \/ Respond

SpecCache == InitOpened /\ [][NextCache]_vars

\* everything, from the empty store
Next ==
    \/ NextDirectory \/ NextSend \/ NextLedger \/ NextPaging \/ NextCache
    \/ NextInbox \/ NextAccess \/ NextCount \/ NextPreview
    \/ NextGateway \/ NextOverview \/ NextReset \/ NextRelay
    \/ NextPresence \/ NextEndpoint \/ NextFollowUp
    \/ NextRegister \/ NextRegisterRace \/ NextAdmin

Spec == Init /\ [][Next]_vars

(***************************************************************************)
(* Claims about the Chat Directory (SpecDirectory).                       *)
(***************************************************************************)
\* C1: however getOrCreateChat requests on one connection interleave (two
\* first accesses that both saw no chat included), the connection has at most
\* one Chat row, that chat holds exactly one SYSTEM message, and a request
\* that succeeds returns that one row.
C1_OneChatPerConnection ==
    /\ \A c \in Conns :
          /\ Cardinality(ChatsOfConnection(c)) <= 1
          /\ \A ch \in ChatsOfConnection(c) :
                 Cardinality(SystemMessagesOfChat(ch)) = 1
    /\ (last.op = "getOrCreateChat" /\ last.status = "ok")
       => ChatsOfConnection(last.conn) = {last.chat}

\* a request saw no chat, lost the race against another first access and
\* returned the winner's row
C1_Witness ==
    /\ last.op = "getOrCreateChat" /\ last.status = "ok"
    /\ last.sawNone /\ ~last.created
    /\ ChatsOfConnection(last.conn) = {last.chat}

\* C6: a Chat row never exists without its 'Chat started' message (created
\* as SYSTEM, by the doctor side, already read), in every state another
\* request can observe, also when the creation failed.
C6_ChatNeverEmpty ==
    \A ch \in ChatIds :
        \E m \in MessagesOfChat(ch) :
            /\ messages[m].senderId = DoctorUser(chats[ch].connectionId)
            /\ messages[m].isRead
            /\ \/ messages[m].messageType = "SYSTEM"
                  /\ messages[m].content = SystemText
               \/ messages[m].isDeleted

\* a creation failed and left no chat for its connection, while the other
\* connection has its chat
C6_Witness ==
    /\ last.op = "getOrCreateChat" /\ last.status = "Error"
    /\ ChatsOfConnection(last.conn) = {}
    /\ chats # <<>>

\* C10: a getOrCreateChat request that finds the chat of its connection returns
\* that chat and adds neither a Chat row nor a message.
C10_SequentialIdempotent ==
    [][\A p \in Procs :
         (pc[p] = "goc_find" /\ pc'[p] # pc[p]
              /\ ChatOfConnection(local[p].conn) # 0)
         => /\ chats' = chats
            /\ messages' = messages
            /\ last'.status = "ok"
            /\ last'.chat = ChatOfConnection(local[p].conn)
            /\ ~last'.created]_vars

\* a request found the existing chat of its connection and returned it
C10_Witness ==
    /\ last.op = "getOrCreateChat" /\ last.status = "ok"
    /\ ~last.sawNone /\ ~last.created
    /\ last.chat # 0
    /\ last.chat = ChatOfConnection(last.conn)

(***************************************************************************)
(* Claims about sending (SpecSend, SpecCache).                            *)
(***************************************************************************)
\* C2: a sendMessage by a member with non-empty content on a chat whose
\* connection is INACTIVE when the chat is loaded fails with InvalidState and
\* leaves the messages as they are; no such send passes the checks.
C2_InactiveRejected ==
    [][/\ (/\ last = NoLast
           /\ last'.op = "sendMessage" /\ last'.msg = 0
           /\ last'.chat \in ChatIds
           /\ hasAccess(last'.chat, last'.user)
           /\ trim(last'.content) # ""
           /\ connStatus[chats[last'.chat].connectionId] = "INACTIVE")
          => (last'.status = "InvalidState" /\ messages' = messages)
       /\ \A p \in Procs :
            (pc[p] = "idle" /\ pc'[p] = "send_snapshot")
            => connStatus[local'[p].conn] = "ACTIVE"]_vars

\* a member's send of "Hello" was rejected because the connection is INACTIVE
C2_Witness ==
    /\ last.op = "sendMessage" /\ last.status = "InvalidState"
    /\ last.chat \in ChatIds
    /\ hasAccess(last.chat, last.user)
    /\ last.content = "Hello"
    /\ connStatus[chats[last.chat].connectionId] = "INACTIVE"

\* C9: a send through the request endpoint that succeeded has called both
\* updateConnectionLastMessage and incrementUnreadCount, each once.
C9_BothFollowUps ==
    (last.op = "sendMessage" /\ last.status = "ok" /\ last.via = "http")
    => (last.updated = 1 /\ last.incremented = 1)

\* C8: a sendMessage that no rename overlaps resolves its sender snapshot to
\* the names the user row holds, whether the snapshot was cached or not.
C8_NeverStale ==
    [][\A p \in Procs :
         (pc[p] = "send_snapshot" /\ pc'[p] = "send_create"
              /\ ~local[p].renamed)
         => local'[p].snap = users[local[p].user]]_vars

(***************************************************************************)
(* Claims about the Message Ledger (SpecLedger, SpecPaging).              *)
(***************************************************************************)
\* C3 (as stated): a Connection's unreadCount equals, for one of its two
\* readers, the number of unread, non-deleted messages the other side sent.
C3_UnreadCountExact ==
    \A c \in Conns :
        ChatOfConnection(c) # 0
        => \E u \in {DoctorUser(c), PatientUser(c)} :
               unreadCount[c] = getUnreadCount(ChatOfConnection(c), u)

\* C3 (amended): unreadCount only approximates the unread figure: it never
\* exceeds the number of messages sent in the connection's chat (the chat's
\* messages, its 'Chat started' message apart), and is 0 without a chat.
C3_UnreadCountBounded ==
    \A c \in Conns :
        IF ChatOfConnection(c) = 0 THEN unreadCount[c] = 0
        ELSE unreadCount[c]
                 <= Cardinality(MessagesOfChat(ChatOfConnection(c))) - 1

\* the counter has drifted: a message was counted, then read by the other
\* side, and the counter still shows it
C3_Witness ==
    \E c \in Conns :
        /\ ChatOfConnection(c) # 0
        /\ unreadCount[c] >= 1
        /\ getUnreadCount(ChatOfConnection(c), DoctorUser(c)) = 0
        /\ getUnreadCount(ChatOfConnection(c), PatientUser(c)) = 0

\* C5: a deleted message keeps the placeholder content and the type DELETED,
\* stays deleted in every later state, and a further deleteMessage on it by
\* its sender fails with InvalidState and changes nothing.
C5_DeleteIrreversible ==
    /\ [](\A m \in MsgIds :
            messages[m].isDeleted
            => /\ messages[m].content = DeletedText
               /\ messages[m].messageType = "DELETED")
    /\ [][\A m \in MsgIds : messages[m].isDeleted => messages'[m].isDeleted]_vars
    /\ [][(/\ last = NoLast
           /\ last'.op = "deleteMessage"
           /\ last'.msg \in MsgIds
           /\ messages[last'.msg].isDeleted
           /\ messages[last'.msg].senderId = last'.user)
          => (last'.status = "InvalidState" /\ messages' = messages)]_vars

\* the sender tried to delete a message that was already deleted
C5_Witness ==
    /\ last.op = "deleteMessage" /\ last.status = "InvalidState"
    /\ last.wasDeleted
    /\ messages[last.msg].senderId = last.user
    /\ messages[last.msg].content = DeletedText

\* C7: markAsRead by the sender of the message fails with Validation and
\* leaves the messages as they are, whether the message is read or not.
C7_OwnMessageRejected ==
    [][(/\ last = NoLast
        /\ last'.op = "markAsRead"
        /\ last'.msg \in MsgIds
        /\ messages[last'.msg].senderId = last'.user)
       => (last'.status = "Validation" /\ messages' = messages)]_vars

\* the sender of a text message tried to mark it read after the other side
\* had read it
C7_Witness ==
    /\ last.op = "markAsRead" /\ last.status = "Validation"
    /\ last.wasRead
    /\ messages[last.msg].senderId = last.user
    /\ messages[last.msg].messageType = "TEXT"

\* C4: a client that pages through a chat from no cursor until hasMore is
\* false has seen every message the chat held when it started exactly once,
\* newest first by (createdAt, id).
C4_PagingVisitsAll ==
    pager.state = "done"
    => /\ Len(pager.seen) = Cardinality(pager.start)
       /\ {pager.seen[i] : i \in DOMAIN pager.seen} = pager.start
       /\ \A i, j \in DOMAIN pager.seen :
              i < j => Newer(pager.seen[i], pager.seen[j])

(***************************************************************************)
(* Further claims about the Chat Directory.                               *)
(***************************************************************************)
\* C11: a getOrCreateChat request for a connection that does not exist fails
\* with NotFound, one for a connection that is not ACTIVE fails with
\* InvalidState, and neither adds a Chat row or a message; only a request for
\* an existing ACTIVE connection goes on to look for the chat.
C11_ConnectionErrors ==
    [][\A p \in Procs :
         /\ (/\ last = NoLast /\ last'.op = "getOrCreateChat"
             /\ pc[p] = "idle" /\ pc'[p] = "idle"
             /\ \A q \in Procs : pc'[q] = pc[q])
            => /\ last'.conn \notin Conns => last'.status = "NotFound"
               /\ (last'.conn \in Conns /\ connStatus[last'.conn] # "ACTIVE")
                  => last'.status = "InvalidState"
               /\ last'.status \in {"NotFound", "InvalidState"}
               /\ chats' = chats /\ messages' = messages
         /\ (pc[p] = "idle" /\ pc'[p] = "goc_find")
            => /\ local'[p].conn \in Conns
               /\ connStatus[local'[p].conn] = "ACTIVE"]_vars

\* a request on an INACTIVE connection was refused while the other
\* connection has its chat
C11_Witness ==
    /\ last.op = "getOrCreateChat" /\ last.status = "InvalidState"
    /\ last.conn \in Conns
    /\ connStatus[last.conn] = "INACTIVE"
    /\ ChatsOfConnection(last.conn) = {}
    /\ chats # <<>>

(***************************************************************************)
(* Further claims about the Message Ledger.                               *)
(***************************************************************************)
\* C12: a message's isRead turns true only in a markAsRead or markAllAsRead
\* called by a member of the chat who is not the message's sender, and a
\* message that is created already read is a SYSTEM message.
C12_ReadByOtherParty ==
    [][/\ \A m \in MsgIds :
            (~messages[m].isRead /\ messages'[m].isRead)
            => \E u \in Users :
                 /\ u # messages[m].senderId
                 /\ hasAccess(messages[m].chatId, u)
                 /\ \/ /\ last = NoLast
                       /\ last'.op = "markAsRead" /\ last'.status = "ok"
                       /\ last'.msg = m /\ last'.user = u
                    \/ \E p \in Procs :
                         /\ pc[p] = "idle" /\ pc'[p] = "http_reset"
                         /\ local'[p].chat = messages[m].chatId
                         /\ local'[p].user = u
       /\ \A m \in DOMAIN messages' \ MsgIds :
            messages'[m].isRead => messages'[m].messageType = "SYSTEM"]_vars

\* the other member of the chat has just marked a text message read
C12_Witness ==
    /\ last.op = "markAsRead" /\ last.status = "ok"
    /\ ~last.wasRead
    /\ messages[last.msg].isRead
    /\ messages[last.msg].messageType = "TEXT"
    /\ messages[last.msg].senderId # last.user
    /\ hasAccess(last.chat, last.user)

\* C13: deleteMessage by a user who is not the sender of the message fails
\* with Forbidden and leaves the message as it is; deleteMessage on a message
\* that does not exist fails with NotFound.
C13_DeleteBySenderOnly ==
    [][(last = NoLast /\ last'.op = "deleteMessage")
       => /\ last'.msg \notin MsgIds
             => (last'.status = "NotFound" /\ messages' = messages)
          /\ (last'.msg \in MsgIds /\ messages[last'.msg].senderId # last'.user)
             => /\ last'.status = "Forbidden"
                /\ messages'[last'.msg].content = messages[last'.msg].content
                /\ messages'[last'.msg].messageType
                       = messages[last'.msg].messageType
                /\ messages'[last'.msg].isDeleted
                       = messages[last'.msg].isDeleted]_vars

\* the other member of the chat tried to delete a text message
C13_Witness ==
    /\ last.op = "deleteMessage" /\ last.status = "Forbidden"
    /\ hasAccess(last.chat, last.user)
    /\ messages[last.msg].senderId # last.user
    /\ messages[last.msg].messageType = "TEXT"
    /\ ~messages[last.msg].isDeleted

\* C14 (as stated): no operation changes the id, chatId, senderId, content,
\* messageType or createdAt of a message once it is created.
C14_CoreImmutable ==
    [][/\ Len(messages') >= Len(messages)
       /\ \A m \in MsgIds :
            /\ messages'[m].chatId = messages[m].chatId
            /\ messages'[m].senderId = messages[m].senderId
            /\ messages'[m].createdAt = messages[m].createdAt
            /\ messages'[m].content = messages[m].content
            /\ messages'[m].messageType = messages[m].messageType]_vars

\* C14 (amended): no operation changes the id, chatId, senderId or createdAt
\* of a message, and its content and messageType change only in the sender's
\* successful deleteMessage, to the placeholder and to DELETED.
C14_CoreImmutableButTombstone ==
    [][/\ Len(messages') >= Len(messages)
       /\ \A m \in MsgIds :
            /\ messages'[m].chatId = messages[m].chatId
            /\ messages'[m].senderId = messages[m].senderId
            /\ messages'[m].createdAt = messages[m].createdAt
            /\ \/ /\ messages'[m].content = messages[m].content
                  /\ messages'[m].messageType = messages[m].messageType
               \/ /\ last = NoLast
                  /\ last'.op = "deleteMessage" /\ last'.status = "ok"
                  /\ last'.msg = m
                  /\ last'.user = messages[m].senderId
                  /\ messages'[m].content = DeletedText
                  /\ messages'[m].messageType = "DELETED"
                  /\ messages'[m].isDeleted]_vars

\* the patient has just deleted a message of theirs: it now holds the
\* placeholder, under the same sender, chat and time
C14_Witness ==
    /\ last.op = "deleteMessage" /\ last.status = "ok"
    /\ last.user = "user-pat"
    /\ messages[last.msg].senderId = "user-pat"
    /\ messages[last.msg].content = DeletedText
    /\ messages[last.msg].messageType = "DELETED"

\* C15: markAllAsRead(chatId, userId) turns isRead true on exactly the
\* messages of that chat that were unread and not sent by userId, changes
\* nothing else of any message, of this chat or another, and answers with the
\* fixed confirmation.
C15_MarkAllFrame ==
    [][\A p \in Procs :
         /\ (pc[p] = "idle" /\ pc'[p] = "http_reset")
            => /\ DOMAIN messages' = DOMAIN messages
               /\ \A m \in MsgIds :
                    IF /\ messages[m].chatId = local'[p].chat
                       /\ messages[m].senderId # local'[p].user
                       /\ ~messages[m].isRead
                      THEN /\ messages'[m].isRead
                           /\ [messages'[m] EXCEPT !.isRead = FALSE]
                                  = messages[m]
                      ELSE messages'[m] = messages[m]
         /\ (pc[p] = "http_reset" /\ pc'[p] = "idle")
            => /\ last'.op = "markAllAsRead" /\ last'.status = "ok"
               /\ last'.content = AllReadText
               /\ last'.count = 0
               /\ messages' = messages]_vars

\* the doctor's markAllAsRead on one chat has flipped a message there while
\* a patient's unread message waits in the doctor's other chat
C15_Witness ==
    \E p \in Procs :
        /\ pc[p] = "http_reset"
        /\ local[p].count >= 1
        /\ \E m \in MessagesOfChat(local[p].chat) :
               /\ messages[m].isRead
               /\ messages[m].messageType = "TEXT"
               /\ messages[m].senderId # local[p].user
        /\ \E n \in MsgIds :
               /\ messages[n].chatId # local[p].chat
               /\ ~messages[n].isRead
               /\ messages[n].senderId # local[p].user

\* C16: markAsRead on a message that is already read, by a member of the
\* chat who is not its sender, succeeds, returns the message read, and leaves
\* the stored messages as the first call left them.
C16_MarkAsReadIdempotent ==
    [][(/\ last = NoLast
        /\ last'.op = "markAsRead"
        /\ last'.msg \in MsgIds
        /\ messages[last'.msg].isRead
        /\ hasAccess(messages[last'.msg].chatId, last'.user)
        /\ messages[last'.msg].senderId # last'.user)
       => /\ last'.status = "ok"
          /\ messages'[last'.msg].isRead
          /\ messages' = messages
          /\ connVars' = connVars /\ chats' = chats]_vars

\* the patient marked an already-read text message of the doctor read again
C16_Witness ==
    /\ last.op = "markAsRead" /\ last.status = "ok"
    /\ last.wasRead
    /\ messages[last.msg].isRead
    /\ messages[last.msg].messageType = "TEXT"
    /\ messages[last.msg].senderId # last.user
    /\ hasAccess(last.chat, last.user)

\* C17: verifyUserAccess answers true exactly for the user ids of the
\* connection's doctor and patient, getChatDetails succeeds for exactly those
\* users and fails with Forbidden for any other, and both fail with NotFound
\* when the chat does not exist.
C17_AccessIsMembership ==
    /\ last.op = "verifyUserAccess"
       => IF last.chat \notin ChatIds
            THEN last.status = "NotFound"
            ELSE /\ last.status = "ok"
                 /\ last.granted
                    <=> last.user \in {DoctorUser(chats[last.chat].connectionId),
                                       PatientUser(chats[last.chat].connectionId)}
    /\ last.op = "getChatDetails"
       => IF last.chat \notin ChatIds
            THEN last.status = "NotFound"
            ELSE IF last.user \in {DoctorUser(chats[last.chat].connectionId),
                                   PatientUser(chats[last.chat].connectionId)}
              THEN last.status = "ok"
              ELSE last.status = "Forbidden"

\* the patient of one connection was refused the details of the chat of the
\* other connection
C17_Witness ==
    /\ last.op = "getChatDetails" /\ last.status = "Forbidden"
    /\ last.chat \in ChatIds
    /\ last.user \in {PatientUser(c) : c \in Conns}
    /\ last.user # PatientUser(chats[last.chat].connectionId)

(***************************************************************************)
(* Further claims about sending and reading the ledger.                   *)
(***************************************************************************)
\* C18: a sendMessage whose content is the empty string or only blanks fails
\* with Validation and adds no message, whatever the chat, the sender and the
\* connection's status are; no such send passes the checks.
C18_BlankRejected ==
    [][/\ (/\ last = NoLast
           /\ last'.op = "sendMessage"
           /\ last'.content \in {"", "  "})
          => (last'.status = "Validation" /\ messages' = messages)
       /\ \A p \in Procs :
            (pc[p] = "idle" /\ pc'[p] = "send_snapshot")
            => local'[p].content \notin {"", "  "}]_vars

\* a blank message of a member was refused as invalid, not as a send on an
\* inactive connection
C18_Witness ==
    /\ last.op = "sendMessage" /\ last.status = "Validation"
    /\ last.content = "  "
    /\ last.chat \in ChatIds
    /\ hasAccess(last.chat, last.user)
    /\ connStatus[chats[last.chat].connectionId] = "INACTIVE"

\* C19: the per-chat getUnreadCount(chatId, userId) is the number of messages
\* of chatId with isRead false, isDeleted false and a senderId other than
\* userId, whatever was sent, read and deleted before.
C19_UnreadCountOfChat ==
    last.op = "getChatUnreadCount"
    => /\ last.status = "ok"
       /\ last.count
            = Cardinality({m \in MsgIds :
                             /\ messages[m].chatId = last.chat
                             /\ messages[m].isRead = FALSE
                             /\ messages[m].isDeleted = FALSE
                             /\ messages[m].senderId # last.user})

\* the count left out a deleted unread message and counted another unread one
C19_Witness ==
    /\ last.op = "getChatUnreadCount"
    /\ last.count = 1
    /\ \E m \in MessagesOfChat(last.chat) :
           /\ messages[m].isDeleted /\ ~messages[m].isRead
           /\ messages[m].senderId # last.user

\* C20: when getMessages returns a page, its cursor is the createdAt of the
\* last message of the page, and hasMore is true iff the chat holds a message
\* older in the (createdAt, id) order than that last message, which is iff the
\* page requested next with that cursor is not empty.
C20_HasMoreExact ==
    [][(/\ pager'.state \in {"paging", "done"}
        /\ Len(pager'.seen) > Len(pager.seen))
       => LET lastm == pager'.seen[Len(pager'.seen)]
          IN  /\ pager'.cursor = messages[lastm].createdAt
              /\ pager'.hasMore
                 <=> \E m \in MessagesOfChat(pager'.chat) : Newer(lastm, m)
              /\ pager'.hasMore
                 <=> getMessages(pager'.chat, pager'.cursor,
                                 pager'.limit).messages # <<>>]_vars

(***************************************************************************)
(* Claims about the follow-up updates of a Connection.                    *)
(***************************************************************************)
\* C21: updateConnectionLastMessage stores as the chat's lastMessagePreview
\* the first 200 characters of the preview text, the whole text when it has
\* at most 200, so that no stored preview is longer than 200 characters.
C21_PreviewTruncated ==
    /\ \A ch \in ChatIds : Len(chats[ch].lastMessagePreview) <= 200
    /\ last.op = "updateConnectionLastMessage"
       => \A ch \in ChatsOfConnection(last.conn) :
            LET stored == chats[ch].lastMessagePreview
            IN  /\ Len(last.content) <= 200 => stored = last.content
                /\ Len(last.content) > 200
                   => /\ Len(stored) = 200
                      /\ \E rest \in {SubSeq(last.content, 201, Len(last.content))} :
                            stored \o rest = last.content

\* a preview of 201 characters was stored cut to its first 200
C21_Witness ==
    /\ last.op = "updateConnectionLastMessage"
    /\ Len(last.content) = 201
    /\ \E ch \in ChatsOfConnection(last.conn) :
           /\ Len(chats[ch].lastMessagePreview) = 200
           /\ chats[ch].lastMessagePreview \o "b" = last.content

C23_IncrementExact ==
    \A c \in Conns :
        unreadCount[c]
          = Cardinality({m \in MsgIds :
                           /\ messages[m].chatId \in ChatsOfConnection(c)
                           /\ messages[m].messageType = "TEXT"})
            - Cardinality({p \in Procs :
                             /\ pc[p] \in {"ws_update", "ws_increment"}
                             /\ local[p].conn = c})

\* one handler's increment landed while the other handler, sending on the
\* same connection, still has its own to make
C23_Witness ==
    \E p \in Procs, c \in Conns :
        /\ pc[p] = "ws_increment" /\ local[p].conn = c
        /\ \A q \in Procs \ {p} : pc[q] = "idle"
        /\ unreadCount[c] = 1
        /\ \A d \in Conns \ {c} : unreadCount[d] = 0

C25_UserChats ==
    last.op = "getUserChats"
    => /\ last.role = "ADMIN" => last.status = "Forbidden"
       /\ (last.role = "DOCTOR" /\ last.user # "user-doc")
          => last.status = "NotFound"
       /\ (last.role = "PATIENT" /\ last.user \notin {"user-pat", "user-pat-1"})
          => last.status = "NotFound"
       /\ last.status = "ok"
          => \A e \in last.entries :
               /\ last.user \in {DoctorUser(e.connectionId),
                                 PatientUser(e.connectionId)}
               /\ e.participant.userId # last.user
               /\ e.participant.userId \in {DoctorUser(e.connectionId),
                                            PatientUser(e.connectionId)}
               /\ e.participant.role
                    = IF last.role = "DOCTOR" THEN "PATIENT" ELSE "DOCTOR"

\* the doctor's list shows the patients of both connections
C25_Witness ==
    /\ last.op = "getUserChats" /\ last.status = "ok"
    /\ last.role = "DOCTOR"
    /\ {e.participant.userId : e \in last.entries} = {"user-pat", "user-pat-1"}
    /\ \A e \in last.entries : e.participant.role = "PATIENT"

\* C26: resetUnreadCount(chatId, userId) by a member of the chat sets the
\* unreadCount of the chat's connection to 0 and leaves the other
\* connection's; by anyone else, or for a chat that does not exist, it fails
\* and leaves every unreadCount as it is.
C26_ResetByMember ==
    [][(last = NoLast /\ last'.op = "resetUnreadCount")
       => IF /\ last'.chat \in ChatIds
             /\ last'.user \in {DoctorUser(chats[last'.chat].connectionId),
                                PatientUser(chats[last'.chat].connectionId)}
            THEN /\ last'.status = "ok"
                 /\ unreadCount'[chats[last'.chat].connectionId] = 0
                 /\ \A c \in Conns \ {chats[last'.chat].connectionId} :
                        unreadCount'[c] = unreadCount[c]
            ELSE /\ last'.status \in {"NotFound", "Forbidden"}
                 /\ unreadCount' = unreadCount]_vars

\* the patient of the other connection was refused and the counter kept its
\* value
C26_Witness ==
    /\ last.op = "resetUnreadCount" /\ last.status = "Forbidden"
    /\ last.chat \in ChatIds
    /\ last.user \in {PatientUser(c) : c \in Conns}
    /\ unreadCount[chats[last.chat].connectionId] >= 1

C28_PresenceCleanup ==
    /\ [](\A s \in Sockets :
             sockets[s].state = "closed"
             => ~sockets[s].scope /\ sockets[s].rooms = {})
    /\ \A s \in Sockets :
           (sockets[s].state = "silent") ~> (sockets[s].state = "closed")
    /\ \A u \in Users :
           (LiveSockets(u) = {})
           ~> (~isUserOnline(u) \/ LiveSockets(u) # {})

\* every socket of a user is disconnected, the de-registration did not reach
\* the store, and the entry is ageing
C28_Witness ==
    \E u \in Users :
        /\ \E s \in Sockets : SocketUser(s) = u
        /\ HeldSockets(u) = {}
        /\ isUserOnline(u)
        /\ presence[u] < PresenceTtl

\* C29: sendMessage applies its checks in the order Validation (empty
\* content), NotFound (chat absent), Forbidden (sender not a member),
\* InvalidState (connection not ACTIVE): a request that the checks answer
\* gets the error of the first check it fails, so a non-member sending to a
\* chat whose connection is INACTIVE gets Forbidden and empty content on a
\* missing chat gets Validation.
C29_CheckOrder ==
    [][(/\ last = NoLast
        /\ last'.op = "sendMessage"
        /\ \A p \in Procs : pc[p] = "idle")
       => LET r == last'
              empty == trim(r.content) = ""
              absent == r.chat \notin ChatIds
              member == /\ ~absent
                        /\ r.user \in {DoctorUser(chats[r.chat].connectionId),
                                       PatientUser(chats[r.chat].connectionId)}
              active == /\ ~absent
                        /\ connStatus[chats[r.chat].connectionId] = "ACTIVE"
          IN  /\ empty => r.status = "Validation"
              /\ (~empty /\ absent) => r.status = "NotFound"
              /\ (~empty /\ ~absent /\ ~member) => r.status = "Forbidden"
              /\ (~empty /\ member /\ ~active) => r.status = "InvalidState"]_vars

\* a non-member was refused with Forbidden on the chat of an INACTIVE
\* connection
C29_Witness ==
    /\ last.op = "sendMessage" /\ last.status = "Forbidden"
    /\ last.chat \in ChatIds
    /\ connStatus[chats[last.chat].connectionId] = "INACTIVE"

\* C30: no message is persisted against a chat whose connection is not
\* ACTIVE at the moment of persistence, also when the connection's status
\* changes while a sendMessage that has passed its status check is on its
\* way to message.create.
C30_PersistOnlyWhileActive ==
    [][Len(messages') > Len(messages)
       => connStatus[chats[messages'[Len(messages')].chatId].connectionId]
          = "ACTIVE"]_vars

(***************************************************************************)
(* Claims about the endpoints and the registration.                       *)
(***************************************************************************)
\* C31: a request that the get-or-create-chat endpoint rejects with
\* BadRequest, because its caller is not a member of the connection, has
\* created no Chat row and no SYSTEM message for that connection.
C31_RejectedCreatesNothing ==
    (last.op = "ChatController_getOrCreateChat" /\ last.status = "BadRequest")
    => ~last.created

\* C32: once every send in flight has completed its follow-up step, the
\* lastMessageAt and lastMessagePreview of a chat are those of the newest
\* message sent on it, by (createdAt, id), also when the follow-ups of two
\* sends ran in the opposite order to their message.create.
C32_LastMessageIsNewest ==
    (\A p \in Procs : pc[p] = "idle")
    => \A ch \in ChatIds :
         LET sent == MessagesOfChat(ch) \ SystemMessagesOfChat(ch)
         IN  sent # {}
             => LET newest == CHOOSE m \in sent :
                                \A n \in sent \ {m} : Newer(m, n)
                IN  /\ chats[ch].lastMessageAt = messages[newest].createdAt
                    /\ chats[ch].lastMessagePreview
                       = substring(messages[newest].content, PreviewMax)

\* C33: the updateMany of a successful markAllAsRead(chatId, userId) leaves
\* the per-chat getUnreadCount(chatId, userId) at 0 and does not change the
\* per-chat unread count of the other member.
C33_MarkAllClearsOwnCount ==
    [][\A p \in Procs, ch \in ChatIds, u \in Users :
          (/\ pc[p] = "idle" /\ pc'[p] = "http_reset"
           /\ local'[p].chat = ch /\ local'[p].user = u)
          => /\ getUnreadCount(ch, u)' = 0
             /\ \A v \in Users \ {u} :
                    hasAccess(ch, v)
                    => getUnreadCount(ch, v)' = getUnreadCount(ch, v)]_vars

\* markAllAsRead has marked at least one message while a message of its
\* caller is still unread by the other member
C33_Witness ==
    \E p \in Procs :
        /\ pc[p] = "http_reset"
        /\ local[p].count >= 1
        /\ getUnreadCount(local[p].chat, local[p].user) = 0
        /\ \E v \in Users \ {local[p].user} :
               /\ hasAccess(local[p].chat, v)
               /\ getUnreadCount(local[p].chat, v) >= 1

\* C34: registerBasice, registerVerifyEmail and completeUserProfile move an
\* account only forward along INIT, PENDING_EMAIL_VERIFICATION,
\* EMAIL_VERIFIED, PENDING_ADMIN_APPROVAL, with registrationStep 0, 1, 2, 3:
\* no step takes the status or the registrationStep of an account back.
C34_RegistrationForward ==
    [][\A a \in Accounts :
          LET rank(st) == IF st = "NONE" THEN 0
                          ELSE IF st = "INIT" THEN 1
                          ELSE IF st = "PENDING_EMAIL_VERIFICATION" THEN 2
                          ELSE IF st = "EMAIL_VERIFIED" THEN 3
                          ELSE 4
          IN  /\ rank(accounts'[a].status) >= rank(accounts[a].status)
              /\ accounts'[a].registrationStep
                 >= accounts[a].registrationStep]_vars

\* C35: an account is in status EMAIL_VERIFIED only after registerVerifyEmail
\* accepted an email verification code for it; no other operation, the
\* admin's deactivateUser and activateUser included, puts an account there.
C35_VerifiedOnlyByOtp ==
    \A a \in Accounts :
        accounts[a].status = "EMAIL_VERIFIED" => otps[a].accepted

\* C36: in every reachable state, an account with role patient or doctor
\* whose status is PENDING_ADMIN_APPROVAL has exactly one patient or doctor
\* row.
C36_PendingHasOneProfile ==
    \A a \in Accounts :
        (/\ accounts[a].role \in {"patient", "doctor"}
         /\ accounts[a].status = "PENDING_ADMIN_APPROVAL")
        => profiles[a] = 1

\* C37: no two accounts ever hold the same email, and a registerBasice for
\* an email that another account holds fails with Conflict and leaves the
\* temp user in status INIT, also when two registerBasice calls with the
\* same email for different temp users interleave between the existence
\* check and the update.
C37_EmailUniqueOrConflict ==
    /\ \A a, b \in AccountIds : a # b => accounts[a].email # accounts[b].email
    /\ (/\ last.op = "registerBasice"
        /\ \E b \in AccountIds \ {last.user} : accounts[b].email = last.email)
       => /\ last.status \in {"Conflict", "BadRequest"}
          /\ last.status = "Conflict" => accounts[last.user].status = "INIT"

====
